---- MODULE Spec2Model ----
(***************************************************************************)
(* Request dispatch of pulsar-http/core: the route table built by start    *)
(* (getRoutes), the path matcher (matchRoute), the dispatcher              *)
(* (processRoute / handleRoutes), the parameter extractor (getParams), the *)
(* middleware chain (composeMiddleware), the host request callback (the    *)
(* fetch of start) and the rate limiter (rateLimitMiddleware).             *)
(*                                                                         *)
(* A string is a sequence of atoms.  Every atom is one character, except   *)
(* "public", which stands for that run of six letters; no other atom       *)
(* shares a letter with it, so a prefix test on atoms is the prefix test   *)
(* on characters.                                                          *)
(***************************************************************************)
EXTENDS Integers, Sequences, FiniteSets, TLC

VARIABLES
    routes,      \* the routes option handed to start: a Route / RouteNamespace tree
    allRoutes,   \* start's flattened route list (server.ts:92)
    started,     \* whether start has run
    op,          \* the operation that ran last
    request,     \* the request of the last operation
    matched,     \* what matchRoute returned in the last dispatch
    calls,       \* the route-handler invocations of the last dispatch
    response,    \* the response of the last dispatch
    pattern,     \* the routePath argument of the last getParams / getRawParams call
    params,      \* the result of the last getParams call
    rawParams,   \* the result of the last getRawParams call
    middlewares, \* the middlewares option handed to start
    handlerBehaviour, \* what the route handlers of the configuration do
    websocket,   \* the websocket option handed to start
    invocations, \* the calls of the host request callback, oldest first
    rateLimitMap, \* the module-level map of the rate limiter (middlewares.ts:55)
    now          \* the clock Date.now() reads

\* The state of the direct calls of the router's functions.
routerVars == <<op, request, matched, calls, response, pattern, params, rawParams>>

\* The state of the server's request handling.
serverVars == <<middlewares, handlerBehaviour, websocket, invocations,
               rateLimitMap, now>>

vars == <<routes, allRoutes, started, op, request, matched, calls, response,
          pattern, params, rawParams, middlewares, handlerBehaviour, websocket,
          invocations, rateLimitMap, now>>

-----------------------------------------------------------------------------
(* Bounds of the model *)

MaxPathLen == 4      \* atoms in a path of the exhaustive-string specification
MaxRoutes == 2       \* routes in a flat route list
MaxNodes == 3        \* routes and namespaces in a configuration tree
MaxChain == 3        \* middlewares in a chain
MaxTasks == 4        \* requests handled one after another
MaxRacers == 3       \* requests handled at the same time
MaxTicks == 4        \* steps of the clock

\* A step of the clock: half of the example's window of 60000 ms.
TickMs == 60000 \div 2

-----------------------------------------------------------------------------
(* Strings *)

Slash == "/"
Colon == ":"

\* All strings of at most n atoms over the alphabet S.
StringsUpTo(S, n) == UNION {[1..k -> S] : k \in 0..n}

\* String.prototype.split("/"): the pieces between separators, empty ones kept.
RECURSIVE SplitAcc(_, _, _)
SplitAcc(s, cur, acc) ==
    IF s = <<>> THEN Append(acc, cur)
    ELSE IF Head(s) = Slash THEN SplitAcc(Tail(s), <<>>, Append(acc, cur))
    ELSE SplitAcc(Tail(s), Append(cur, Head(s)), acc)

split(s) == SplitAcc(s, <<>>, <<>>)

\* Mutant of filterNonEmpty: the empty pieces are kept.
filterNothing(parts) == parts

\* .filter((part) => part !== "")
filterNonEmpty(parts) == SelectSeq(parts, LAMBDA part : part # <<>>)

\* part.startsWith(":")
startsWithColon(part) == Len(part) >= 1 /\ part[1] = Colon

\* s.startsWith(prefix)
startsWith(s, prefix) ==
    Len(s) >= Len(prefix) /\ SubSeq(s, 1, Len(prefix)) = prefix

\* part.slice(1)
slice1(part) == IF part = <<>> THEN <<>> ELSE Tail(part)

\* new URL(request.url).pathname: an empty path is the root path.
pathname(req) == IF req.url = <<>> THEN <<Slash>> ELSE req.url

-----------------------------------------------------------------------------
(* Values *)

Undefined == [undefined |-> TRUE]
NoRequest == [method |-> "none", url |-> <<>>]
NoResponse == [kind |-> "none"]

\* new Response("Not Found", { status: 404 })
NotFoundResponse == [kind |-> "text", status |-> 404, body |-> "Not Found"]

\* file(url.pathname): the static file at that path
FileResponse(path) == [kind |-> "file", path |-> path]

\* What route handler h answers to (request, params).
HandlerResponse(h, req, ps) ==
    [kind |-> "handler", handler |-> h, request |-> req, params |-> ps]

-----------------------------------------------------------------------------
(* router.ts: matchRoute, getParams, processRoute, handleRoutes *)

\* Mutant of segmentsAgree: the loop returns after the first segment.
segmentsAgreeFirstOnly(routePath, requestPath, i) ==
    \/ Len(routePath) = 0
    \/ startsWithColon(routePath[1])
    \/ routePath[1] = requestPath[1]

\* The loop of matchRoute over the segments, from index i on.
RECURSIVE segmentsAgree(_, _, _)
segmentsAgree(routePath, requestPath, i) ==
    IF i > Len(routePath) THEN TRUE
    ELSE IF startsWithColon(routePath[i])
         THEN segmentsAgree(routePath, requestPath, i + 1)
    ELSE IF routePath[i] # requestPath[i] THEN FALSE
    ELSE segmentsAgree(routePath, requestPath, i + 1)

\* The callback matchRoute hands to routes.find.
routePredicate(route, req) ==
    LET routePath == filterNonEmpty(split(route.path))
        requestPath == filterNonEmpty(split(pathname(req)))
    IN  IF route.method # req.method THEN FALSE
        ELSE IF Len(routePath) # Len(requestPath) THEN FALSE
        ELSE segmentsAgree(routePath, requestPath, 1)

\* Array.prototype.find: the first element the predicate accepts, or undefined.
RECURSIVE find(_, _, _)
find(rs, req, i) ==
    IF i > Len(rs) THEN Undefined
    ELSE IF routePredicate(rs[i], req) THEN rs[i]
    ELSE find(rs, req, i + 1)

\* Mutant of matchRoute: the list is searched in order of priority, highest
\* first, registration order among equals.
matchRouteByPriority(rs, req) ==
    LET hits == {i \in 1..Len(rs) : routePredicate(rs[i], req)}
    IN  IF hits = {} THEN Undefined
        ELSE rs[CHOOSE i \in hits :
                    \A j \in hits :
                        \/ rs[j].priority < rs[i].priority
                        \/ (rs[j].priority = rs[i].priority /\ i <= j)]

matchRoute(rs, req) == find(rs, req, 1)

\* Mutant of withKey: a placeholder with no request segment is left out.
withKeyIfDefined(acc, key, value) ==
    IF value = <<"undefined">> THEN acc
    ELSE [k \in DOMAIN acc \cup {key} |-> IF k = key THEN value ELSE acc[k]]

\* { ...acc, [key]: value }
withKey(acc, key, value) ==
    [k \in DOMAIN acc \cup {key} |-> IF k = key THEN value ELSE acc[k]]

\* requestPathParts[index]: undefined past the end of the array.
NoSegment == <<"undefined">>
\* Mutant of at: the request's segments are read one place too far.
atNext(parts, index) ==
    IF index + 1 \in 1..Len(parts) THEN parts[index + 1] ELSE NoSegment

at(parts, index) == IF index \in 1..Len(parts) THEN parts[index] ELSE NoSegment

\* The reduce of getParams, from index i on.
RECURSIVE reduceParams(_, _, _, _)
reduceParams(routePathParts, requestPathParts, i, acc) ==
    IF i > Len(routePathParts) THEN acc
    ELSE IF startsWithColon(routePathParts[i])
         THEN reduceParams(routePathParts, requestPathParts, i + 1,
                           withKey(acc, slice1(routePathParts[i]),
                                   at(requestPathParts, i)))
    ELSE reduceParams(routePathParts, requestPathParts, i + 1, acc)

\* Mutant of getParams: the key keeps the colon of the placeholder.
getParamsKeepColon(req, routePath) ==
    LET routePathParts == filterNonEmpty(split(routePath))
        requestPathParts == filterNonEmpty(split(pathname(req)))
        keys == {routePathParts[i] : i \in {j \in 1..Len(routePathParts) :
                                              startsWithColon(routePathParts[j])}}
    IN  [k \in keys |->
            at(requestPathParts,
               CHOOSE i \in 1..Len(routePathParts) :
                   /\ routePathParts[i] = k
                   /\ \A j \in (i + 1)..Len(routePathParts) : routePathParts[j] # k)]

getParams(req, routePath) ==
    reduceParams(filterNonEmpty(split(routePath)),
                 filterNonEmpty(split(pathname(req))), 1, <<>>)

PublicPrefix == <<Slash, "public">>

\* Mutant of processRoute: the match is dereferenced without the ?. guard, so
\* an absent match raises a TypeError.
processRouteUnguarded(matchedRoute, req) ==
    IF matchedRoute # Undefined
    THEN LET ps == getParams(req, matchedRoute.path)
         IN  <<  <<[handler |-> matchedRoute.handler, request |-> req, params |-> ps]>>,
                 HandlerResponse(matchedRoute.handler, req, ps)  >>
    ELSE << <<>>, [kind |-> "throw", error |-> "TypeError"] >>

\* processRoute: <<the handler invocations made, the response>>.
processRoute(matchedRoute, req) ==
    IF matchedRoute # Undefined
    THEN LET ps == getParams(req, matchedRoute.path)
         IN  <<  <<[handler |-> matchedRoute.handler, request |-> req, params |-> ps]>>,
                 HandlerResponse(matchedRoute.handler, req, ps)  >>
    ELSE IF startsWith(pathname(req), PublicPrefix)
         THEN << <<>>, FileResponse(pathname(req)) >>
    ELSE << <<>>, NotFoundResponse >>

\* The routes argument as matchRoute, processRoute and getParams leave it:
\* find's callback reads route.method and route.path, split and filter return
\* new arrays, processRoute reads matchedRoute.handler and matchedRoute.path,
\* and getParams is handed the path string; none assigns to the list or to a
\* route of it.
routesAfterDispatch(rs, req) == rs

handleRoutes(rs, req) == processRoute(matchRoute(rs, req), req)

\* getRawParams(routePath): the names of the placeholder segments, in order.
getRawParams(path) ==
    LET placeholders == SelectSeq(filterNonEmpty(split(path)), startsWithColon)
    IN  [i \in 1..Len(placeholders) |-> slice1(placeholders[i])]

-----------------------------------------------------------------------------
(* server.ts: getRoutes *)

\* Mutant of prefixed: a "/" doubled at the joint is collapsed.
prefixedCollapsing(prefix, childRoutes) ==
    [i \in 1..Len(childRoutes) |->
        [childRoutes[i] EXCEPT !.path =
            IF /\ prefix # <<>>
               /\ prefix[Len(prefix)] = Slash
               /\ childRoutes[i].path # <<>>
               /\ Head(childRoutes[i].path) = Slash
            THEN prefix \o Tail(childRoutes[i].path)
            ELSE prefix \o childRoutes[i].path]]

\* .map((childRoute) => ({ ...childRoute, path: `${route.path}${childRoute.path}` }))
prefixed(prefix, childRoutes) ==
    [i \in 1..Len(childRoutes) |->
        [childRoutes[i] EXCEPT !.path = prefix \o childRoutes[i].path]]

\* Mutant of routesAfterGetRoutes: the map callback assigns the joined path
\* to the child route it was given and returns that same object.
routesAfterGetRoutesInPlace(rs) ==
    LET RECURSIVE under(_, _)
        under(prefix, elements) ==
            [i \in 1..Len(elements) |->
                IF "routes" \in DOMAIN elements[i]
                THEN [elements[i] EXCEPT
                         !.routes = under(prefix \o elements[i].path, @)]
                ELSE [elements[i] EXCEPT !.path = prefix \o @]]
    IN  under(<<>>, rs)

\* The routes argument as a call of getRoutes leaves it.  The loop reads the
\* elements and pushes into the new array allRoutes; the recursion is handed
\* route.routes; map returns a new array of new objects
\* ({ ...childRoute, path }): nothing is assigned to the argument or to
\* anything reachable from it.
RECURSIVE routesAfterGetRoutes(_)
routesAfterGetRoutes(rs) ==
    [i \in 1..Len(rs) |->
        IF "routes" \in DOMAIN rs[i]
        THEN [rs[i] EXCEPT !.routes = routesAfterGetRoutes(@)]
        ELSE rs[i]]

\* Mutant of getRoutes: the plain routes of a level come before the routes of
\* its namespaces.
RECURSIVE getRoutesPlainFirst(_)
getRoutesPlainFirst(rs) ==
    LET plain == SelectSeq(rs, LAMBDA e : ~("routes" \in DOMAIN e))
        spaces == SelectSeq(rs, LAMBDA e : "routes" \in DOMAIN e)
        RECURSIVE inner(_)
        inner(ns) ==
            IF ns = <<>> THEN <<>>
            ELSE prefixed(Head(ns).path, getRoutesPlainFirst(Head(ns).routes))
                     \o inner(Tail(ns))
    IN  plain \o inner(spaces)

\* Mutant of getRoutes: a namespace prefixes the plain routes written directly
\* in it; the routes of the namespaces inside it keep the path they have.
RECURSIVE getRoutesShallow(_)
getRoutesShallow(rs) ==
    IF rs = <<>> THEN <<>>
    ELSE LET route == Head(rs)
         IN  (IF "routes" \in DOMAIN route
              THEN prefixed(route.path,
                            SelectSeq(route.routes,
                                      LAMBDA e : ~("routes" \in DOMAIN e)))
                       \o getRoutesShallow(
                              SelectSeq(route.routes,
                                        LAMBDA e : "routes" \in DOMAIN e))
              ELSE <<route>>) \o getRoutesShallow(Tail(rs))

\* getRoutes: the for-loop over the elements, recursing into namespaces.
RECURSIVE getRoutes(_)
getRoutes(rs) ==
    IF rs = <<>> THEN <<>>
    ELSE LET route == Head(rs)
         IN  (IF "routes" \in DOMAIN route
              THEN prefixed(route.path, getRoutes(route.routes))
              ELSE <<route>>) \o getRoutes(Tail(rs))

-----------------------------------------------------------------------------
(* response.ts: error *)

\* statusMessages[status] || "Unknown Error"
statusMessages(status) ==
    CASE status = 400 -> "Bad Request"
      [] status = 403 -> "Forbidden"
      [] status = 404 -> "Not Found"
      [] status = 429 -> "Too Many Requests"
      [] status = 500 -> "Internal Server Error"
      [] OTHER -> "Unknown Error"

\* error(status, message): the text response of that status; "" stands for an
\* absent message, which `message || ...` treats the same.
error(status, message) ==
    [kind |-> "text", status |-> status,
     body |-> IF message # "" THEN message ELSE statusMessages(status)]

-----------------------------------------------------------------------------
(* rate-limit.ts: rateLimitMiddleware *)

Comma == ","
Space == " "

\* headers.get(name) of an absent header
Null == <<"null">>

\* req.headers.get(name)
get(headers, name) == IF name \in DOMAIN headers THEN headers[name] ELSE Null

\* value.split(",")[0]: the text before the first comma.
RECURSIVE firstValue(_)
firstValue(value) ==
    IF value = <<>> \/ Head(value) = Comma THEN <<>>
    ELSE <<Head(value)>> \o firstValue(Tail(value))

\* String.prototype.trim
RECURSIVE trimStart(_)
trimStart(s) == IF s # <<>> /\ Head(s) = Space THEN trimStart(Tail(s)) ELSE s
RECURSIVE trimEnd(_)
trimEnd(s) ==
    IF s # <<>> /\ s[Len(s)] = Space THEN trimEnd(SubSeq(s, 1, Len(s) - 1)) ELSE s
trim(s) == trimEnd(trimStart(s))

\* A header value || treats as present: neither null nor "".
truthy(value) == value # Null /\ value # <<>>

\* Mutant of clientIpOf: the address the host wrote wins over the forwarded ones.
clientIpOfRealIpFirst(headers) ==
    LET forwarded == IF get(headers, "x-forwarded-for") = Null THEN Null
                     ELSE trim(firstValue(get(headers, "x-forwarded-for")))
    IN  IF truthy(get(headers, "x-real-ip")) THEN get(headers, "x-real-ip")
        ELSE IF truthy(forwarded) THEN forwarded
        ELSE get(headers, "cf-connecting-ip")

\* const clientIp = x-forwarded-for?.split(",")[0].trim() || cf-connecting-ip
\*                  || x-real-ip
clientIpOf(headers) ==
    LET forwarded == IF get(headers, "x-forwarded-for") = Null THEN Null
                     ELSE trim(firstValue(get(headers, "x-forwarded-for")))
    IN  IF truthy(forwarded) THEN forwarded
        ELSE IF truthy(get(headers, "cf-connecting-ip"))
             THEN get(headers, "cf-connecting-ip")
        ELSE get(headers, "x-real-ip")

\* rateLimitMap.set(key, entry)
mapSet(map, key, entry) ==
    [k \in DOMAIN map \cup {key} |-> IF k = key THEN entry ELSE map[k]]

\* What one run of a middleware's code up to its call of next() (or to its
\* return) comes to: whether it calls next(), else the value it resolves with;
\* the rate-limit map it leaves; the events it adds to the invocation's trace.
Ran(callsNext, val, map, events) ==
    [callsNext |-> callsNext, val |-> val, map |-> map, events |-> events]

\* The trace entry of one run of the rate limiter: the key, the clock value
\* read, the entry as the run left it, and what the run did.
Limited(k, key, map, currentTime, outcome) ==
    [ev |-> "rateLimit", at |-> k, key |-> key, time |-> currentTime,
     count |-> IF key \in DOMAIN map THEN map[key].count ELSE 0,
     resetTime |-> IF key \in DOMAIN map THEN map[key].resetTime ELSE 0,
     outcome |-> outcome]

\* Mutant of rateLimitMiddleware: the request that brings the count to
\* maxRequests is refused already.
rateLimitMiddlewareAtLimit(cfg, k, headers, map, currentTime) ==
    LET clientIp == clientIpOf(headers)
        found == IF clientIp \in DOMAIN map THEN map[clientIp]
                 ELSE [count |-> 0, resetTime |-> currentTime + cfg.windowMs]
        fresh == IF currentTime > found.resetTime
                 THEN [count |-> 0, resetTime |-> currentTime + cfg.windowMs]
                 ELSE found
        counted == [fresh EXCEPT !.count = @ + 1]
        set == mapSet(map, clientIp, counted)
    IN  IF ~truthy(clientIp)
        THEN Ran(FALSE, error(400, "Could not determine client IP"), map,
                 <<Limited(k, clientIp, map, currentTime, "400")>>)
        ELSE IF counted.count >= cfg.maxRequests
        THEN Ran(FALSE, error(429, ""), set,
                 <<Limited(k, clientIp, set, currentTime, "429")>>)
        ELSE Ran(TRUE, Undefined, set,
                 <<Limited(k, clientIp, set, currentTime, "next")>>)

\* Mutant of rateLimitMiddleware: the count is compared as it was read, and
\* the increment is stored afterwards.
rateLimitMiddlewareStaleCount(cfg, k, headers, map, currentTime) ==
    LET clientIp == clientIpOf(headers)
        found == IF clientIp \in DOMAIN map THEN map[clientIp]
                 ELSE [count |-> 0, resetTime |-> currentTime + cfg.windowMs]
        fresh == IF currentTime > found.resetTime
                 THEN [count |-> 0, resetTime |-> currentTime + cfg.windowMs]
                 ELSE found
        counted == [fresh EXCEPT !.count = @ + 1]
        set == mapSet(map, clientIp, counted)
    IN  IF ~truthy(clientIp)
        THEN Ran(FALSE, error(400, "Could not determine client IP"), map,
                 <<Limited(k, clientIp, map, currentTime, "400")>>)
        ELSE IF fresh.count > cfg.maxRequests
        THEN Ran(FALSE, error(429, ""), set,
                 <<Limited(k, clientIp, set, currentTime, "429")>>)
        ELSE Ran(TRUE, Undefined, set,
                 <<Limited(k, clientIp, set, currentTime, "next")>>)

\* Mutant of rateLimitMiddleware: a request without a client key is let
\* through unlimited.
rateLimitMiddlewareSkipsUnknown(cfg, k, headers, map, currentTime) ==
    LET clientIp == clientIpOf(headers)
        found == IF clientIp \in DOMAIN map THEN map[clientIp]
                 ELSE [count |-> 0, resetTime |-> currentTime + cfg.windowMs]
        fresh == IF currentTime > found.resetTime
                 THEN [count |-> 0, resetTime |-> currentTime + cfg.windowMs]
                 ELSE found
        counted == [fresh EXCEPT !.count = @ + 1]
        set == mapSet(map, clientIp, counted)
    IN  IF ~truthy(clientIp)
        THEN Ran(TRUE, Undefined, map,
                 <<Limited(k, clientIp, map, currentTime, "next")>>)
        ELSE IF counted.count > cfg.maxRequests
        THEN Ran(FALSE, error(429, ""), set,
                 <<Limited(k, clientIp, set, currentTime, "429")>>)
        ELSE Ran(TRUE, Undefined, set,
                 <<Limited(k, clientIp, set, currentTime, "next")>>)

\* Mutant of rateLimitMiddleware: the window is over already when the clock
\* reads its resetTime.
rateLimitMiddlewareResetsAtBoundary(cfg, k, headers, map, currentTime) ==
    LET clientIp == clientIpOf(headers)
        found == IF clientIp \in DOMAIN map THEN map[clientIp]
                 ELSE [count |-> 0, resetTime |-> currentTime + cfg.windowMs]
        fresh == IF currentTime >= found.resetTime
                 THEN [count |-> 0, resetTime |-> currentTime + cfg.windowMs]
                 ELSE found
        counted == [fresh EXCEPT !.count = @ + 1]
        set == mapSet(map, clientIp, counted)
    IN  IF ~truthy(clientIp)
        THEN Ran(FALSE, error(400, "Could not determine client IP"), map,
                 <<Limited(k, clientIp, map, currentTime, "400")>>)
        ELSE IF counted.count > cfg.maxRequests
        THEN Ran(FALSE, error(429, ""), set,
                 <<Limited(k, clientIp, set, currentTime, "429")>>)
        ELSE Ran(TRUE, Undefined, set,
                 <<Limited(k, clientIp, set, currentTime, "next")>>)

\* Mutant of rateLimitMiddleware: every middleware rateLimitMiddleware returns
\* has a map of its own (here: entries of its own, under the key and its place).
rateLimitMiddlewareOwnMap(cfg, k, headers, map, currentTime) ==
    LET clientIp == clientIpOf(headers)
        own == <<clientIp, k>>
        found == IF own \in DOMAIN map THEN map[own]
                 ELSE [count |-> 0, resetTime |-> currentTime + cfg.windowMs]
        fresh == IF currentTime > found.resetTime
                 THEN [count |-> 0, resetTime |-> currentTime + cfg.windowMs]
                 ELSE found
        counted == [fresh EXCEPT !.count = @ + 1]
        set == mapSet(map, own, counted)
        entry == [key \in {clientIp} |-> counted]
    IN  IF ~truthy(clientIp)
        THEN Ran(FALSE, error(400, "Could not determine client IP"), map,
                 <<Limited(k, clientIp, map, currentTime, "400")>>)
        ELSE IF counted.count > cfg.maxRequests
        THEN Ran(FALSE, error(429, ""), set,
                 <<Limited(k, clientIp, entry, currentTime, "429")>>)
        ELSE Ran(TRUE, Undefined, set,
                 <<Limited(k, clientIp, entry, currentTime, "next")>>)

\* Mutant of rateLimitMiddleware: a sliding window; a refused request starts
\* the window anew.
rateLimitMiddlewareSliding(cfg, k, headers, map, currentTime) ==
    LET clientIp == clientIpOf(headers)
        found == IF clientIp \in DOMAIN map THEN map[clientIp]
                 ELSE [count |-> 0, resetTime |-> currentTime + cfg.windowMs]
        fresh == IF currentTime > found.resetTime
                 THEN [count |-> 0, resetTime |-> currentTime + cfg.windowMs]
                 ELSE found
        counted == [fresh EXCEPT !.count = @ + 1]
        set == mapSet(map, clientIp, counted)
        slid == mapSet(map, clientIp,
                       [counted EXCEPT !.resetTime = currentTime + cfg.windowMs])
    IN  IF ~truthy(clientIp)
        THEN Ran(FALSE, error(400, "Could not determine client IP"), map,
                 <<Limited(k, clientIp, map, currentTime, "400")>>)
        ELSE IF counted.count > cfg.maxRequests
        THEN Ran(FALSE, error(429, ""), slid,
                 <<Limited(k, clientIp, slid, currentTime, "429")>>)
        ELSE Ran(TRUE, Undefined, set,
                 <<Limited(k, clientIp, set, currentTime, "next")>>)

\* Mutant of rateLimitMiddleware: an expired entry is deleted and the request
\* let through uncounted; the key's next request creates the entry anew.
rateLimitMiddlewareDropsExpired(cfg, k, headers, map, currentTime) ==
    LET clientIp == clientIpOf(headers)
        found == IF clientIp \in DOMAIN map THEN map[clientIp]
                 ELSE [count |-> 0, resetTime |-> currentTime + cfg.windowMs]
        counted == [found EXCEPT !.count = @ + 1]
        set == mapSet(map, clientIp, counted)
        deleted == [key \in DOMAIN map \ {clientIp} |-> map[key]]
    IN  IF ~truthy(clientIp)
        THEN Ran(FALSE, error(400, "Could not determine client IP"), map,
                 <<Limited(k, clientIp, map, currentTime, "400")>>)
        ELSE IF currentTime > found.resetTime
        THEN Ran(TRUE, Undefined, deleted,
                 <<Limited(k, clientIp, deleted, currentTime, "next")>>)
        ELSE IF counted.count > cfg.maxRequests
        THEN Ran(FALSE, error(429, ""), set,
                 <<Limited(k, clientIp, set, currentTime, "429")>>)
        ELSE Ran(TRUE, Undefined, set,
                 <<Limited(k, clientIp, set, currentTime, "next")>>)

\* The middleware rateLimitMiddleware(cfg) returns, standing at place k of the
\* chain, run on a request with these headers at clock value currentTime.
rateLimitMiddleware(cfg, k, headers, map, currentTime) ==
    LET clientIp == clientIpOf(headers)
        found == IF clientIp \in DOMAIN map THEN map[clientIp]
                 ELSE [count |-> 0, resetTime |-> currentTime + cfg.windowMs]
        fresh == IF currentTime > found.resetTime
                 THEN [count |-> 0, resetTime |-> currentTime + cfg.windowMs]
                 ELSE found
        counted == [fresh EXCEPT !.count = @ + 1]
        set == mapSet(map, clientIp, counted)
    IN  IF ~truthy(clientIp)
        THEN Ran(FALSE, error(400, "Could not determine client IP"), map,
                 <<Limited(k, clientIp, map, currentTime, "400")>>)
        ELSE IF counted.count > cfg.maxRequests
        THEN Ran(FALSE, error(429, ""), set,
                 <<Limited(k, clientIp, set, currentTime, "429")>>)
        ELSE Ran(TRUE, Undefined, set,
                 <<Limited(k, clientIp, set, currentTime, "next")>>)

-----------------------------------------------------------------------------
(* types.ts: Middleware.  The middlewares a configuration can hold. *)

\* A rejection raised by the middleware at place `by` (0: the route handler).
Throw(by) == [kind |-> "throw", by |-> by]
IsThrow(v) == v # Undefined /\ v.kind = "throw"

\* The entries of an invocation's trace.
Entered(k) == [ev |-> "before", at |-> k]
Resumed(k) == [ev |-> "after", at |-> k]
Threw(k) == [ev |-> "throw", at |-> k]
Caught(k) == [ev |-> "catch", at |-> k]
Terminal == [ev |-> "terminal", at |-> 0]

\* The response the middleware at place k makes up itself.
Answer(k) == [kind |-> "middleware", by |-> k]

\* The inner response as the middleware at place k hands it on.
Wrapped(k, inner) ==
    IF inner = Undefined THEN Undefined
    ELSE [kind |-> "wrapped", by |-> k, inner |-> inner]

\* The kinds of middleware, by what their code does:
\*   "wrap"      const r = await next(); ...; return r (transformed)
\*   "respond"   return a response of its own, next() not called
\*   "void"      return nothing, next() not called
\*   "forget"    await next(); ...; return nothing
\*   "throw"     throw before next() is called
\*   "catch"     try { return await next() } catch { return error(500, ...) }
\*   "rateLimit" rateLimitMiddleware({windowMs, maxRequests})
\* enter: the middleware's code from its entry to its call of next() or, when
\* it does not call next(), to its end.
enter(m, k, req, map, currentTime) ==
    LET ran ==
          CASE m.kind = "rateLimit" ->
                   rateLimitMiddleware(m, k, req.headers, map, currentTime)
            [] m.kind = "respond" -> Ran(FALSE, Answer(k), map, <<>>)
            [] m.kind = "void" -> Ran(FALSE, Undefined, map, <<>>)
            [] m.kind = "throw" -> Ran(FALSE, Throw(k), map, <<Threw(k)>>)
            [] OTHER -> Ran(TRUE, Undefined, map, <<>>)
    IN  [ran EXCEPT !.events = <<Entered(k)>> \o @]

\* resume: the middleware's code after its call of next() has settled with
\* `inner` (a response, undefined or a rejection), to its end.
resume(m, k, inner) ==
    CASE m.kind = "wrap" ->
             IF IsThrow(inner) THEN [val |-> inner, events |-> <<>>]
             ELSE [val |-> Wrapped(k, inner), events |-> <<Resumed(k)>>]
      [] m.kind = "forget" ->
             IF IsThrow(inner) THEN [val |-> inner, events |-> <<>>]
             ELSE [val |-> Undefined, events |-> <<Resumed(k)>>]
      [] m.kind = "catch" ->
             IF IsThrow(inner)
             THEN [val |-> error(500, "caught"), events |-> <<Caught(k)>>]
             ELSE [val |-> inner, events |-> <<>>]
      [] OTHER -> [val |-> inner, events |-> <<>>]

-----------------------------------------------------------------------------
(* server.ts: composeMiddleware, the fetch of start *)

\* routeHandler(req), the handler handleRoutes(allRoutes) returned: the
\* dispatch, in which a matched route's handler answers, resolves with nothing
\* or throws, as the configuration's handlers do.
routeHandler(rs, req, behaviour) ==
    LET route == matchRoute(rs, req)
    IN  IF route # Undefined /\ behaviour = "void"
        THEN [val |-> Undefined, events |-> <<Terminal>>]
        ELSE IF route # Undefined /\ behaviour = "throw"
        THEN [val |-> Throw(0), events |-> <<Terminal, Threw(0)>>]
        ELSE [val |-> processRoute(route, req)[2], events |-> <<Terminal>>]

\* Mutant of cursor: the cursor is declared once, outside the function
\* composeMiddleware returns, and every invocation advances the same one.
cursorShared(invs, t) ==
    CHOOSE i \in {invs[u].i : u \in 1..Len(invs)} :
        \A u \in 1..Len(invs) : invs[u].i <= i

\* `let i = 0` in the function composeMiddleware returns: the cursor that the
\* next of invocation t closes over.
cursor(invs, t) == invs[t].i

\* Mutant of middlewareIndex: the list is walked from its end.
middlewareIndexFromEnd(ms, i) == Len(ms) - i

\* middlewares[i++]: the place in the list (counted from 1) of the middleware
\* the cursor i selects.
middlewareIndex(ms, i) == i + 1

\* Mutant of afterMiddleware: the route handler is called whatever the
\* middleware resolved with.
afterMiddlewareAlwaysDispatches(val) ==
    IF IsThrow(val) THEN [do |-> "throw", val |-> val]
    ELSE [do |-> "routeHandler", val |-> val]

\* Mutant of afterMiddleware: a rejection is caught and answered with a 500.
afterMiddlewareCatches(val) ==
    IF IsThrow(val) THEN [do |-> "return", val |-> error(500, "")]
    ELSE IF val # Undefined THEN [do |-> "return", val |-> val]
    ELSE [do |-> "routeHandler", val |-> val]

\* next, after `await middlewares[i++](req, next)` has settled with val: a
\* rejection goes on to next's caller, a response is returned, and anything
\* falsy falls through to `return routeHandler(req)`.
afterMiddleware(val) ==
    IF IsThrow(val) THEN [do |-> "throw", val |-> val]
    ELSE IF val # Undefined THEN [do |-> "return", val |-> val]
    ELSE [do |-> "routeHandler", val |-> val]

\* Mutant of hostResponse: the callback has no try / catch.
hostResponseUncaught(val) ==
    IF IsThrow(val) THEN val
    ELSE IF val = Undefined THEN error(404, "")
    ELSE val

\* fetch, from `let response = await composedHandlers(req)` on: what the
\* callback returns when the composed handler settles with val.
hostResponse(val) ==
    IF IsThrow(val) THEN error(500, "")
    ELSE IF val = Undefined THEN error(404, "")
    ELSE val

\* Mutant of withRealIp: the composed handler is called before x-real-ip is
\* set.
withRealIpLate(req) == req

\* The request as fetch hands it to the composed handler: x-real-ip is set to
\* the socket's address when the server knows one.
withRealIp(req) ==
    IF truthy(req.address)
    THEN [req EXCEPT !.headers =
             [h \in DOMAIN req.headers \cup {"x-real-ip"} |->
                 IF h = "x-real-ip" THEN req.address ELSE req.headers[h]]]
    ELSE req

\* The websocket option: absent, or a handler with the hooks of its options.
\* canUpgrade is absent, resolves true or false, or rejects; upgrade is absent,
\* resolves with the headers and data of the connection, or rejects.
Websocket(canUpgrade, upgrade) == [canUpgrade |-> canUpgrade, upgrade |-> upgrade]

\* `!!websocket && pathname === "/ws"`
isUpgradeRequest(socket, req) ==
    socket # Undefined /\ pathname(req) = <<Slash, "w", "s">>

\* async () => customResponse(null, undefined, { status: 101 }), the terminal
\* handler of the chain applyMiddlewares.
switchingProtocols ==
    [val |-> [kind |-> "text", status |-> 101, body |-> Null],
     events |-> <<Terminal>>]

\* The trace entries of the calls of the canUpgrade hook and of server.upgrade.
AskedCanUpgrade == [ev |-> "canUpgrade", at |-> 0]
Upgraded == [ev |-> "upgrade", at |-> 0]

\* Mutant of afterApplyMiddlewares: a response of status 400 or more that the
\* chain resolved with is returned, and the connection not upgraded.
afterApplyMiddlewaresHonoursRefusal(socket, val) ==
    IF IsThrow(val)
    THEN [do |-> "return", sent |-> error(500, ""), events |-> <<>>]
    ELSE IF val # Undefined /\ val.kind = "text" /\ val.status >= 400
    THEN [do |-> "return", sent |-> val, events |-> <<>>]
    ELSE CASE socket.canUpgrade = "absent" ->
                  [do |-> "upgrade", sent |-> Undefined, events |-> <<>>]
           [] socket.canUpgrade = "true" ->
                  [do |-> "upgrade", sent |-> Undefined,
                   events |-> <<AskedCanUpgrade>>]
           [] socket.canUpgrade = "false" ->
                  [do |-> "return", sent |-> error(403, ""),
                   events |-> <<AskedCanUpgrade>>]
           [] OTHER ->
                  [do |-> "return", sent |-> error(500, ""),
                   events |-> <<AskedCanUpgrade>>]

\* fetch, from `await applyMiddlewares(req)` settling with val to the await of
\* the upgrade hook: a rejection of the chain is caught (500); what the chain
\* resolved with is dropped; canUpgrade, when there is one, is called and
\* awaited: false is answered 403 and a rejection is caught (500).
afterApplyMiddlewares(socket, val) ==
    IF IsThrow(val)
    THEN [do |-> "return", sent |-> error(500, ""), events |-> <<>>]
    ELSE CASE socket.canUpgrade = "absent" ->
                  [do |-> "upgrade", sent |-> Undefined, events |-> <<>>]
           [] socket.canUpgrade = "true" ->
                  [do |-> "upgrade", sent |-> Undefined,
                   events |-> <<AskedCanUpgrade>>]
           [] socket.canUpgrade = "false" ->
                  [do |-> "return", sent |-> error(403, ""),
                   events |-> <<AskedCanUpgrade>>]
           [] OTHER ->
                  [do |-> "return", sent |-> error(500, ""),
                   events |-> <<AskedCanUpgrade>>]

\* fetch, from `await websocket.options?.upgrade?.(req)` on: server.upgrade is
\* called and nothing returned, unless the hook rejects (caught: 500).
afterUpgradeHook(socket) ==
    IF socket.upgrade = "throw"
    THEN [sent |-> error(500, ""), events |-> <<>>]
    ELSE [sent |-> Undefined, events |-> <<Upgraded>>]

-----------------------------------------------------------------------------
(* Configurations *)

\* A route as written in a configuration, before its handler is named.
RouteShapes(methods, paths, priorities) ==
    [method : methods, path : paths, priority : priorities]

\* Each route's handler is a closure of its own; it is named by the place
\* (the child indices from the root) at which the route stands.
RECURSIVE register(_, _)
register(elements, addr) ==
    [i \in 1..Len(elements) |->
        IF "routes" \in DOMAIN elements[i]
        THEN [path |-> elements[i].path,
              routes |-> register(elements[i].routes, Append(addr, i))]
        ELSE [method |-> elements[i].method, path |-> elements[i].path,
              priority |-> elements[i].priority, handler |-> Append(addr, i)]]

\* Sequences of at most n members of S.
SeqsUpTo(S, n) == UNION {[1..k -> S] : k \in 0..n}

\* The configurations of exactly n nodes (routes and namespaces).
RECURSIVE TreesOfSize(_, _, _)
ElementsOfSize(leaves, prefixes, k) ==
    IF k = 1
    THEN leaves \cup {[path |-> q, routes |-> <<>>] : q \in prefixes}
    ELSE {[path |-> q, routes |-> l] :
              q \in prefixes, l \in TreesOfSize(leaves, prefixes, k - 1)}
TreesOfSize(leaves, prefixes, n) ==
    IF n = 0 THEN {<<>>}
    ELSE UNION {{<<e>> \o rest : e \in ElementsOfSize(leaves, prefixes, k),
                                 rest \in TreesOfSize(leaves, prefixes, n - k)} :
                k \in 1..n}

TreesUpTo(leaves, prefixes, n) ==
    UNION {TreesOfSize(leaves, prefixes, k) : k \in 0..n}

\* Exhaustive strings: one GET route whose pattern is any string.
PathAtoms == {Slash, Colon, "a"}
PathConfigs ==
    {<<r>> : r \in RouteShapes({"GET"}, StringsUpTo(PathAtoms, MaxPathLen), {0})}
PathRequests ==
    [method : {"GET"},
     url : {u \in StringsUpTo(PathAtoms, MaxPathLen) : u = <<>> \/ Head(u) = Slash}]

\* Flat route lists over a few overlapping patterns.
ListPatterns ==
    { <<Slash, "a">>, <<Slash, Colon, "a">>,
      <<Slash, Colon, "a", Slash, "b">>,
      <<Slash, Colon, "a", Slash, Colon, "b">> }
ExampleConfig ==
    << [method |-> "GET", path |-> <<Slash>>, priority |-> 0],
       [method |-> "GET", path |-> <<Slash, Colon, "a">>, priority |-> 0],
       [method |-> "GET", path |-> <<Slash, Colon, "a", Slash, Colon, "b">>,
        priority |-> 0] >>
ListConfigs ==
    SeqsUpTo(RouteShapes({"GET", "ALL"}, ListPatterns, {0, 1}), MaxRoutes)
        \cup {ExampleConfig}
ListRequests ==
    [method : {"GET", "POST"},
     url : { <<>>, <<Slash, "a">>, <<Slash, "b">>, <<Slash, "a", Slash, "b">>,
             <<Slash, "b", Slash, "a">>, <<Slash, "public">>,
             <<Slash, "public", Slash, "a">>,
             <<Slash, "a", Slash, "b", Slash, "a">> }]

\* Route / namespace trees.
TreePrefixes ==
    { <<Slash, "a">>, <<Slash, "b">>, <<Slash, "a", Slash, "b">>,
      <<Slash, "a", Slash>> }
TreeConfigs ==
    TreesUpTo(RouteShapes({"GET"},
                          {<<Slash, "b">>, <<"b">>, <<Slash, "a", Slash, "b">>}, {0}),
              TreePrefixes, MaxNodes)
TreeRequests ==
    [method : {"GET"},
     url : { <<Slash, "b">>, <<Slash, "a", Slash, "b">>,
             <<Slash, "a", Slash, "b", Slash, "b">> }]

\* Middleware chains.
ChainKinds == {"wrap", "respond", "void", "forget", "throw", "catch"}
ChainConfigs == SeqsUpTo([kind : ChainKinds], MaxChain)
ChainRoutes == <<[method |-> "GET", path |-> <<Slash, "a">>, priority |-> 0]>>

\* A request as the host hands it to fetch: its headers, and the address of
\* its socket when the server knows one.
Request(method, url, headers, address) ==
    [method |-> method, url |-> url, headers |-> headers, address |-> address]
NoHeaders == <<>>
Header(name, value) == [h \in {name} |-> value]
ChainRequests == { Request("GET", <<Slash, "a">>, NoHeaders, <<"9">>) }

\* The rate limiter alone in the chain.
rateLimit(windowMs, maxRequests) ==
    [kind |-> "rateLimit", windowMs |-> windowMs, maxRequests |-> maxRequests]
WindowMs == 2 * TickMs
LimitConfigs == {<<rateLimit(WindowMs, m)>> : m \in {1, 2}}
LimitRequests ==
    { Request("GET", <<Slash, "a">>, Header("x-forwarded-for", <<"1">>), <<"9">>) }
RaceRequests == LimitRequests
KeyConfigs == {<<rateLimit(WindowMs, 1)>>}

\* Two rate limiters in one chain, each with a window and a limit of its own.
SharedConfigs ==
    { <<rateLimit(w1, m1), rateLimit(w2, m2)>> :
        w1 \in {TickMs, WindowMs}, w2 \in {TickMs, WindowMs},
        m1 \in {1, 3}, m2 \in {3} }

\* Servers with a websocket option: chains of middlewares that hand on,
\* answer, resolve with nothing or throw, and of the rate limiter; requests to
\* /ws without and with a client-address header, and to a route.
UpgradeChains ==
    SeqsUpTo([kind : {"wrap", "respond", "void", "throw"}]
                 \cup {rateLimit(WindowMs, 1)}, MaxChain - 1)
Websockets ==
    {Undefined} \cup
    { Websocket(c, u) : c \in {"absent", "true", "false", "throw"},
                        u \in {"absent", "resolve", "throw"} }
UpgradeRequests ==
    { Request("GET", <<Slash, "w", "s">>, NoHeaders, <<"9">>),
      Request("GET", <<Slash, "w", "s">>, Header("x-forwarded-for", <<"1">>), <<"9">>),
      Request("GET", <<Slash, "a">>, NoHeaders, <<"9">>) }

\* Chains for two requests at a time: middlewares that hand the inner response
\* on, that forget it, and that answer themselves.
PairKinds == {"wrap", "forget", "respond"}
PairConfigs == SeqsUpTo([kind : PairKinds], MaxChain)

\* The rate limiter with a window of one or of two steps of the clock, and
\* the requests of two clients.
WindowConfigs == {<<rateLimit(TickMs, 2)>>, <<rateLimit(WindowMs, 1)>>}
WindowRequests ==
    { Request("GET", <<Slash, "a">>, Header("x-forwarded-for", <<key>>), <<"9">>) :
        key \in {"1", "2"} }
HeaderSets(forwarded, connecting, real) ==
    { [h \in names |-> CASE h = "x-forwarded-for" -> f
                          [] h = "cf-connecting-ip" -> c
                          [] OTHER -> r] :
        names \in SUBSET {"x-forwarded-for", "cf-connecting-ip", "x-real-ip"},
        f \in forwarded, c \in connecting, r \in real }
KeyRequests ==
    { Request("GET", <<Slash, "a">>, hs, address) :
        hs \in HeaderSets({ <<>>, <<"1", Space, Comma, "2">>, <<Comma, "1">> },
                           { <<>>, <<"1">> }, { <<"1">> }),
        address \in { Null, <<"9">> } }

-----------------------------------------------------------------------------
(* Operations *)

\* The state before start: the options are chosen and nothing has run.
InitOptions(configs, chains, behaviours, sockets) ==
    /\ routes \in {register(c, <<>>) : c \in configs}
    /\ middlewares \in chains
    /\ handlerBehaviour \in behaviours
    /\ websocket \in sockets
    /\ invocations = <<>>
    /\ rateLimitMap = <<>>
    /\ now = 0
    /\ allRoutes = <<>>
    /\ started = FALSE
    /\ op = "none"
    /\ request = NoRequest
    /\ matched = Undefined
    /\ calls = <<>>
    /\ response = NoResponse
    /\ pattern = <<>>
    /\ params = <<>>
    /\ rawParams = <<>>

\* No websocket option.
InitServer(configs, chains, behaviours) ==
    InitOptions(configs, chains, behaviours, {Undefined})

\* No middlewares, and route handlers that answer.
InitWith(configs) == InitServer(configs, {<<>>}, {"respond"})

\* start: const allRoutes = getRoutes(routes)
Start ==
    /\ ~started
    /\ allRoutes' = getRoutes(routes)
    /\ routes' = routesAfterGetRoutes(routes)
    /\ started' = TRUE
    /\ UNCHANGED <<op, request, matched, calls, response, pattern,
                   params, rawParams>>
    /\ UNCHANGED serverVars

\* One request through the handler handleRoutes(allRoutes) returned.
HandleRoutes(req) ==
    /\ started
    /\ op = "none"
    /\ LET route == matchRoute(allRoutes, req)
           out == processRoute(route, req)
       IN  /\ matched' = route
           /\ calls' = out[1]
           /\ response' = out[2]
    /\ op' = "handleRoutes"
    /\ request' = req
    /\ pattern' = <<>>
    /\ params' = <<>>
    /\ rawParams' = <<>>
    /\ allRoutes' = routesAfterDispatch(allRoutes, req)
    /\ UNCHANGED <<routes, started>>
    /\ UNCHANGED serverVars

\* getParams(request, route.path), called directly on a registered pattern.
GetParams(req, i) ==
    /\ started
    /\ op = "none"
    /\ i \in 1..Len(allRoutes)
    /\ op' = "getParams"
    /\ request' = req
    /\ pattern' = allRoutes[i].path
    /\ params' = getParams(req, allRoutes[i].path)
    /\ matched' = Undefined
    /\ calls' = <<>>
    /\ response' = NoResponse
    /\ rawParams' = <<>>
    /\ allRoutes' = routesAfterDispatch(allRoutes, req)
    /\ UNCHANGED <<routes, started>>
    /\ UNCHANGED serverVars

\* getRawParams(route.path), as the documentation generator calls it.
GetRawParams(i) ==
    /\ started
    /\ op = "none"
    /\ i \in 1..Len(allRoutes)
    /\ op' = "getRawParams"
    /\ request' = NoRequest
    /\ pattern' = allRoutes[i].path
    /\ rawParams' = getRawParams(allRoutes[i].path)
    /\ matched' = Undefined
    /\ calls' = <<>>
    /\ response' = NoResponse
    /\ params' = <<>>
    /\ UNCHANGED <<routes, allRoutes, started>>
    /\ UNCHANGED serverVars

\* The call returns: its locals are gone and the next call can be made.
Return ==
    /\ op # "none"
    /\ op' = "none"
    /\ request' = NoRequest
    /\ matched' = Undefined
    /\ calls' = <<>>
    /\ response' = NoResponse
    /\ pattern' = <<>>
    /\ params' = <<>>
    /\ rawParams' = <<>>
    /\ UNCHANGED <<routes, allRoutes, started>>
    /\ UNCHANGED serverVars

\* Dispatch over a flat route list.
Init == InitWith(ListConfigs)
Next ==
    \/ Start
    \/ \E req \in ListRequests : HandleRoutes(req)
    \/ Return
Spec == Init /\ [][Next]_vars

\* One pattern and one request path, each any string of the alphabet.
InitPath == InitWith(PathConfigs)
NextPath ==
    \/ Start
    \/ \E req \in PathRequests : HandleRoutes(req)
    \/ \E req \in PathRequests : \E i \in 1..Len(allRoutes) : GetParams(req, i)
    \/ \E i \in 1..Len(allRoutes) : GetRawParams(i)
    \/ Return
SpecPath == InitPath /\ [][NextPath]_vars

\* Flattening of route / namespace trees.
InitTree == InitWith(TreeConfigs)
NextTree ==
    \/ Start
    \/ \E req \in TreeRequests : HandleRoutes(req)
    \/ Return
SpecTree == InitTree /\ [][NextTree]_vars

-----------------------------------------------------------------------------
(* Request handling: one call of the host request callback is an invocation *)
(* that advances from one await to the next.                                *)

\* An invocation's position:
\*   "next"      next() has been called and is about to run
\*   "settled"   the middleware next() awaits has settled with val
\*   "returned"  next() has settled with val; its caller is about to resume
\*   "composed"  the composed handler has settled with result
\*   "upgrade"   the upgrade hook is about to be called
\*   "done"      fetch has returned sent
\* ws: the request took the websocket branch of fetch.
Invocation(req) ==
    [req |-> req, ws |-> FALSE, mode |-> "next", i |-> 0, stack |-> <<>>,
     val |-> Undefined, events |-> <<>>, result |-> NoResponse,
     sent |-> NoResponse]

\* The routeHandler argument of the composeMiddleware call that made the
\* composed handler of an invocation, called.
terminalHandler(inv) ==
    IF inv.ws THEN switchingProtocols
    ELSE routeHandler(allRoutes, inv.req, handlerBehaviour)

InFlight == {t \in 1..Len(invocations) : invocations[t].mode # "done"}

\* fetch, to its call of composedHandlers(req): x-real-ip is set and the
\* composed handler starts with its cursor at 0 and calls next(); for a
\* request to /ws of a server with a websocket option, to its call of
\* applyMiddlewares(req), before x-real-ip is set.  At most `total` requests
\* arrive, at most `together` of them at a time.
Fetch(req, total, together) ==
    /\ started
    /\ Len(invocations) < total
    /\ Cardinality(InFlight) < together
    /\ invocations' =
          Append(invocations,
                 IF isUpgradeRequest(websocket, req)
                 THEN [Invocation(req) EXCEPT !.ws = TRUE]
                 ELSE Invocation(withRealIp(req)))
    /\ UNCHANGED <<routes, allRoutes, started, middlewares, handlerBehaviour, websocket,
                   rateLimitMap, now>>
    /\ UNCHANGED routerVars

\* next(): below the end of the list the cursor's middleware is called and the
\* cursor advanced; at the end the route handler is called.
CallNext(t) ==
    LET inv == invocations[t]
        i == cursor(invocations, t)
    IN  /\ inv.mode = "next"
        /\ IF i < Len(middlewares)
           THEN LET k == middlewareIndex(middlewares, i)
                    ran == enter(middlewares[k], k, inv.req, rateLimitMap, now)
                IN  /\ invocations' =
                          [invocations EXCEPT ![t] =
                              [inv EXCEPT !.i = i + 1,
                                          !.events = @ \o ran.events,
                                          !.stack = IF ran.callsNext
                                                    THEN Append(@, k) ELSE @,
                                          !.val = ran.val,
                                          !.mode = IF ran.callsNext
                                                   THEN "next" ELSE "settled"]]
                    /\ rateLimitMap' = ran.map
           ELSE LET out == terminalHandler(inv)
                IN  /\ invocations' =
                          [invocations EXCEPT ![t] =
                              [inv EXCEPT !.events = @ \o out.events,
                                          !.val = out.val,
                                          !.mode = "returned"]]
                    /\ UNCHANGED rateLimitMap
        /\ UNCHANGED <<routes, allRoutes, started, middlewares,
                       handlerBehaviour, websocket, now>>
        /\ UNCHANGED routerVars

\* next(), after its await: the middleware's response is returned, its
\* rejection passed on, and on an empty result the route handler is called.
MiddlewareSettles(t) ==
    LET inv == invocations[t]
        after == afterMiddleware(inv.val)
        out == terminalHandler(inv)
    IN  /\ inv.mode = "settled"
        /\ invocations' =
              [invocations EXCEPT ![t] =
                  IF after.do = "routeHandler"
                  THEN [inv EXCEPT !.events = @ \o out.events,
                                   !.val = out.val,
                                   !.mode = "returned"]
                  ELSE [inv EXCEPT !.val = after.val, !.mode = "returned"]]
        /\ UNCHANGED <<routes, allRoutes, started, middlewares,
                       handlerBehaviour, websocket, rateLimitMap, now>>
        /\ UNCHANGED routerVars

\* next() settles: the middleware that awaits it resumes and runs to its end,
\* or, when the composed handler itself called it, the composed handler settles.
NextSettles(t) ==
    LET inv == invocations[t]
    IN  /\ inv.mode = "returned"
        /\ invocations' =
              [invocations EXCEPT ![t] =
                  IF inv.stack = <<>>
                  THEN [inv EXCEPT !.result = inv.val, !.mode = "composed"]
                  ELSE LET k == inv.stack[Len(inv.stack)]
                           res == resume(middlewares[k], k, inv.val)
                       IN  [inv EXCEPT
                               !.stack = SubSeq(@, 1, Len(@) - 1),
                               !.events = @ \o res.events,
                               !.val = res.val,
                               !.mode = "settled"]]
        /\ UNCHANGED <<routes, allRoutes, started, middlewares,
                       handlerBehaviour, websocket, rateLimitMap, now>>
        /\ UNCHANGED routerVars

\* fetch, after `await composedHandlers(req)`: the response is returned, a 404
\* in place of an empty result and a 500 in place of a rejection.
Respond(t) ==
    LET inv == invocations[t]
    IN  /\ inv.mode = "composed"
        /\ ~inv.ws
        /\ invocations' =
              [invocations EXCEPT ![t] =
                  [inv EXCEPT !.sent = hostResponse(inv.result),
                              !.mode = "done"]]
        /\ UNCHANGED <<routes, allRoutes, started, middlewares,
                       handlerBehaviour, websocket, rateLimitMap, now>>
        /\ UNCHANGED routerVars

\* fetch on the websocket branch, after `await applyMiddlewares(req)`: up to
\* the return of a 403 or 500, or to the call of the upgrade hook.
CanUpgrade(t) ==
    LET inv == invocations[t]
        after == afterApplyMiddlewares(websocket, inv.result)
    IN  /\ inv.mode = "composed"
        /\ inv.ws
        /\ invocations' =
              [invocations EXCEPT ![t] =
                  [inv EXCEPT !.events = @ \o after.events,
                              !.sent = IF after.do = "return"
                                       THEN after.sent ELSE @,
                              !.mode = IF after.do = "return"
                                       THEN "done" ELSE "upgrade"]]
        /\ UNCHANGED <<routes, allRoutes, started, middlewares,
                       handlerBehaviour, websocket, rateLimitMap, now>>
        /\ UNCHANGED routerVars

\* fetch on the websocket branch, from the upgrade hook to its return.
Upgrade(t) ==
    LET inv == invocations[t]
        after == afterUpgradeHook(websocket)
    IN  /\ inv.mode = "upgrade"
        /\ invocations' =
              [invocations EXCEPT ![t] =
                  [inv EXCEPT !.events = @ \o after.events,
                              !.sent = after.sent,
                              !.mode = "done"]]
        /\ UNCHANGED <<routes, allRoutes, started, middlewares,
                       handlerBehaviour, websocket, rateLimitMap, now>>
        /\ UNCHANGED routerVars

\* Time passes: the clock moves on by half of the limiter's window.
Tick ==
    /\ started
    /\ now + TickMs <= MaxTicks * TickMs
    /\ now' = now + TickMs
    /\ UNCHANGED <<routes, allRoutes, started, middlewares, handlerBehaviour, websocket,
                   invocations, rateLimitMap>>
    /\ UNCHANGED routerVars

\* One invocation at a time of a chain of any middlewares.
InitChain == InitServer({ChainRoutes}, ChainConfigs, {"respond", "void", "throw"})
NextChain ==
    \/ Start
    \/ \E req \in ChainRequests : Fetch(req, 1, 1)
    \/ \E t \in 1..Len(invocations) : CallNext(t)
    \/ \E t \in 1..Len(invocations) : MiddlewareSettles(t)
    \/ \E t \in 1..Len(invocations) : NextSettles(t)
    \/ \E t \in 1..Len(invocations) : Respond(t)
SpecChain == InitChain /\ [][NextChain]_vars

\* Requests one after another through the rate limiter, as time passes.
InitLimit == InitServer({ChainRoutes}, LimitConfigs, {"respond"})
NextLimit ==
    \/ Start
    \/ \E req \in LimitRequests : Fetch(req, MaxTasks, 1)
    \/ \E t \in 1..Len(invocations) : CallNext(t)
    \/ \E t \in 1..Len(invocations) : MiddlewareSettles(t)
    \/ \E t \in 1..Len(invocations) : NextSettles(t)
    \/ \E t \in 1..Len(invocations) : Respond(t)
    \/ Tick
SpecLimit == InitLimit /\ [][NextLimit]_vars

\* Requests of one client through the rate limiter at the same time.
InitRace == InitServer({ChainRoutes}, LimitConfigs, {"respond"})
NextRace ==
    \/ Start
    \/ \E req \in RaceRequests : Fetch(req, MaxRacers, MaxRacers)
    \/ \E t \in 1..Len(invocations) : CallNext(t)
    \/ \E t \in 1..Len(invocations) : MiddlewareSettles(t)
    \/ \E t \in 1..Len(invocations) : NextSettles(t)
    \/ \E t \in 1..Len(invocations) : Respond(t)
SpecRace == InitRace /\ [][NextRace]_vars

\* Requests with any client-address headers through the rate limiter.
InitKey == InitServer({ChainRoutes}, KeyConfigs, {"respond"})
NextKey ==
    \/ Start
    \/ \E req \in KeyRequests : Fetch(req, 2, 1)
    \/ \E t \in 1..Len(invocations) : CallNext(t)
    \/ \E t \in 1..Len(invocations) : MiddlewareSettles(t)
    \/ \E t \in 1..Len(invocations) : NextSettles(t)
    \/ \E t \in 1..Len(invocations) : Respond(t)
SpecKey == InitKey /\ [][NextKey]_vars

\* Two invocations of one composed handler that interleave at every await.
InitPair == InitServer({ChainRoutes}, PairConfigs, {"respond"})
NextPair ==
    \/ Start
    \/ \E req \in ChainRequests : Fetch(req, 2, 2)
    \/ \E t \in 1..Len(invocations) : CallNext(t)
    \/ \E t \in 1..Len(invocations) : MiddlewareSettles(t)
    \/ \E t \in 1..Len(invocations) : NextSettles(t)
    \/ \E t \in 1..Len(invocations) : Respond(t)
SpecPair == InitPair /\ [][NextPair]_vars

\* Requests to a server with a websocket option, one after another.
InitUpgrade == InitOptions({ChainRoutes}, UpgradeChains, {"respond"}, Websockets)
NextUpgrade ==
    \/ Start
    \/ \E req \in UpgradeRequests : Fetch(req, 2, 1)
    \/ \E t \in 1..Len(invocations) : CallNext(t)
    \/ \E t \in 1..Len(invocations) : MiddlewareSettles(t)
    \/ \E t \in 1..Len(invocations) : NextSettles(t)
    \/ \E t \in 1..Len(invocations) : Respond(t)
    \/ \E t \in 1..Len(invocations) : CanUpgrade(t)
    \/ \E t \in 1..Len(invocations) : Upgrade(t)
SpecUpgrade == InitUpgrade /\ [][NextUpgrade]_vars

\* Requests of one client one after another through two rate limiters, as
\* time passes.
InitShared == InitServer({ChainRoutes}, SharedConfigs, {"respond"})
NextShared ==
    \/ Start
    \/ \E req \in LimitRequests : Fetch(req, MaxTasks, 1)
    \/ \E t \in 1..Len(invocations) : CallNext(t)
    \/ \E t \in 1..Len(invocations) : MiddlewareSettles(t)
    \/ \E t \in 1..Len(invocations) : NextSettles(t)
    \/ \E t \in 1..Len(invocations) : Respond(t)
    \/ Tick
SpecShared == InitShared /\ [][NextShared]_vars

\* Requests of two clients one after another through the rate limiter, as
\* time passes (one request fewer than of a single client, for the two keys).
InitWindow == InitServer({ChainRoutes}, WindowConfigs, {"respond"})
NextWindow ==
    \/ Start
    \/ \E req \in WindowRequests : Fetch(req, MaxTasks - 1, 1)
    \/ \E t \in 1..Len(invocations) : CallNext(t)
    \/ \E t \in 1..Len(invocations) : MiddlewareSettles(t)
    \/ \E t \in 1..Len(invocations) : NextSettles(t)
    \/ \E t \in 1..Len(invocations) : Respond(t)
    \/ Tick
SpecWindow == InitWindow /\ [][NextWindow]_vars

-----------------------------------------------------------------------------
(* What the claims speak of, stated without the code's helpers *)

\* The places at which a non-empty segment of s begins.
SegStarts(s) == {i \in 1..Len(s) : s[i] # Slash /\ (i = 1 \/ s[i - 1] = Slash)}

\* The segment of s that begins at i: up to the next "/" or the end.
SegmentFrom(s, i) ==
    LET ends == {j \in i..Len(s) : \A m \in i..j : s[m] # Slash}
        last == CHOOSE j \in ends : \A m \in ends : m <= j
    IN  SubSeq(s, i, last)

\* The non-empty segments of s, in order.
Segments(s) ==
    LET starts == SegStarts(s)
        nth(k) == CHOOSE i \in starts : Cardinality({j \in starts : j < i}) = k - 1
    IN  [k \in 1..Cardinality(starts) |-> SegmentFrom(s, nth(k))]

IsPlaceholder(seg) == seg[1] = Colon

\* Conditions 2 and 3 of the matcher: equal segment counts, and segment by
\* segment a placeholder or the same text.
PathCompatible(routePath, requestPath) ==
    LET rs == Segments(routePath)
        qs == Segments(requestPath)
    IN  /\ Len(rs) = Len(qs)
        /\ \A k \in 1..Len(rs) : IsPlaceholder(rs[k]) \/ rs[k] = qs[k]

\* The method test matchRoute applies.
MethodAccepted(route, req) == route.method = req.method

\* The route satisfies every match condition for the request.
Satisfies(route, req) ==
    MethodAccepted(route, req) /\ PathCompatible(route.path, pathname(req))

Dispatched == op = "handleRoutes"

-----------------------------------------------------------------------------
(* C1..C5: the matcher and the dispatcher *)

C3_AllMatchesAnyMethod ==
    Dispatched =>
        \A i \in 1..Len(allRoutes) :
            (/\ allRoutes[i].method = "ALL"
             /\ PathCompatible(allRoutes[i].path, pathname(request)))
                => matched # Undefined

\* C5: dispatch never raises for an absent match: a matched route's handler is
\* invoked exactly once with the request and the extracted parameters and its
\* response is returned; with no match no handler is invoked and the result is
\* the 404 "Not Found" response, or the static file for a path that begins
\* with "/public".
C5_Dispatch ==
    Dispatched =>
        /\ matched = matchRoute(allRoutes, request)
        /\ response.kind # "throw"
        /\ IF matched # Undefined
           THEN /\ Len(calls) = 1
                /\ calls[1].handler = matched.handler
                /\ calls[1].request = request
                /\ calls[1].params = getParams(request, matched.path)
                /\ response = HandlerResponse(matched.handler, request, calls[1].params)
           ELSE /\ calls = <<>>
                /\ IF /\ Len(pathname(request)) >= 2
                      /\ pathname(request)[1] = Slash
                      /\ pathname(request)[2] = "public"
                   THEN response = [kind |-> "file", path |-> pathname(request)]
                   ELSE response =
                            [kind |-> "text", status |-> 404, body |-> "Not Found"]

\* No route matches a path outside "/public": no handler runs and the answer
\* is the 404 response.
C5_Witness ==
    /\ Dispatched
    /\ Len(allRoutes) > 0
    /\ matched = Undefined
    /\ calls = <<>>
    /\ response.kind = "text"
    /\ response.status = 404

-----------------------------------------------------------------------------
(* C4, C6..C8: slashes and path parameters *)

\* s with a "/" put in after its first i atoms.
InsertSlash(s, i) == SubSeq(s, 1, i) \o <<Slash>> \o SubSeq(s, i + 1, Len(s))

\* s without its i-th atom.
RemoveAt(s, i) == SubSeq(s, 1, i - 1) \o SubSeq(s, i + 1, Len(s))

\* s with one leading, trailing or duplicated "/" added or removed.
SlashVariants(s) ==
    {InsertSlash(s, i) :
        i \in {j \in 0..Len(s) :
                 j = 0 \/ j = Len(s) \/ s[j] = Slash \/ s[j + 1] = Slash}}
    \cup
    {RemoveAt(s, i) :
        i \in {j \in 1..Len(s) :
                 /\ s[j] = Slash
                 /\ (j = 1 \/ j = Len(s) \/ s[j - 1] = Slash \/ s[j + 1] = Slash)}}

\* The same, for the path of a request URL: empty, or beginning with "/".
UrlSlashVariants(u) ==
    {v \in SlashVariants(pathname([url |-> u])) : v = <<>> \/ Head(v) = Slash}

\* Which route, if any, matchRoute returns.
Chosen(route) == IF route = Undefined THEN <<>> ELSE <<route.handler>>

\* C4: empty segments are discarded on both sides, so the result of matchRoute
\* does not change when a leading, trailing or duplicated "/" is added to or
\* removed from a route pattern or the request path.
C4_SlashInsensitive ==
    Dispatched =>
        \A i \in 1..Len(allRoutes) :
            \A p \in SlashVariants(allRoutes[i].path) \cup {allRoutes[i].path} :
                \A u \in UrlSlashVariants(request.url) \cup {request.url} :
                    Chosen(matchRoute([allRoutes EXCEPT ![i].path = p],
                                      [request EXCEPT !.url = u]))
                        = Chosen(matched)

\* A pattern with a trailing "/" and no leading one is matched by a request
\* path with a doubled "/".
C4_Witness ==
    /\ Dispatched
    /\ matched # Undefined
    /\ Len(matched.path) >= 2
    /\ Head(matched.path) # Slash
    /\ matched.path[Len(matched.path)] = Slash
    /\ Len(request.url) >= 3
    /\ request.url[2] = Slash

\* The places of the placeholder segments of pattern p, and their names.
PlaceholderIndices(p) ==
    {k \in 1..Len(Segments(p)) : IsPlaceholder(Segments(p)[k])}
NameAt(p, k) == Tail(Segments(p)[k])
Names(p) == {NameAt(p, k) : k \in PlaceholderIndices(p)}
DistinctNames(p) ==
    \A k1, k2 \in PlaceholderIndices(p) : k1 # k2 => NameAt(p, k1) # NameAt(p, k2)

\* C6: for a pattern with N placeholder segments of pairwise distinct names,
\* getParams returns a mapping with exactly N keys, the N names without the
\* colon, whatever segments the request has.
C6_ExactlyNKeys ==
    (op = "getParams" /\ DistinctNames(pattern)) =>
        /\ Cardinality(DOMAIN params) = Cardinality(PlaceholderIndices(pattern))
        /\ DOMAIN params = Names(pattern)

\* Two placeholders and a request with fewer segments: still two keys.
C6_Witness ==
    /\ op = "getParams"
    /\ DistinctNames(pattern)
    /\ Cardinality(PlaceholderIndices(pattern)) = 2
    /\ Len(Segments(pathname(request))) < 2
    /\ Cardinality(DOMAIN params) = 2

\* C7: for the route matchRoute returned, getParams binds each placeholder
\* name to the request's segment at the same index (for a name that stands in
\* the pattern more than once, the index of its last occurrence); every value
\* is a non-empty segment of the request path, and literal segments contribute
\* no key.
C7_BindsSameIndex ==
    (Dispatched /\ matched # Undefined) =>
        LET ps == calls[1].params
            rs == Segments(matched.path)
            qs == Segments(pathname(request))
            holders == PlaceholderIndices(matched.path)
        IN  /\ DOMAIN ps = Names(matched.path)
            /\ \A k \in holders :
                  (\A m \in holders : m > k => Tail(rs[m]) # Tail(rs[k]))
                      => ps[Tail(rs[k])] = qs[k]
            /\ \A n \in DOMAIN ps :
                  /\ ps[n] # <<>>
                  /\ \E k \in 1..Len(qs) : ps[n] = qs[k]

\* A matched pattern of a literal and a placeholder segment: one key, bound to
\* the request's second segment.
C7_Witness ==
    /\ Dispatched
    /\ matched # Undefined
    /\ Len(Segments(matched.path)) = 2
    /\ PlaceholderIndices(matched.path) = {2}
    /\ Cardinality(DOMAIN calls[1].params) = 1
    /\ \A n \in DOMAIN calls[1].params :
          calls[1].params[n] = Segments(pathname(request))[2]

\* The k-th smallest member of a set of numbers.
Kth(S, k) == CHOOSE i \in S : Cardinality({j \in S : j < i}) = k - 1

\* C8: getRawParams returns the names of the placeholder segments of a
\* pattern, without the colon and in pattern order, and takes no request; its
\* elements are the keys getParams returns for that pattern.
C8_RawParamNames ==
    /\ op = "getRawParams" =>
          /\ request = NoRequest
          /\ Len(rawParams) = Cardinality(PlaceholderIndices(pattern))
          /\ \A m \in 1..Len(rawParams) :
                rawParams[m] = NameAt(pattern, Kth(PlaceholderIndices(pattern), m))
    /\ op = "getParams" =>
          {getRawParams(pattern)[m] : m \in 1..Len(getRawParams(pattern))}
              = DOMAIN params
    /\ (Dispatched /\ matched # Undefined) =>
          {getRawParams(matched.path)[m] : m \in 1..Len(getRawParams(matched.path))}
              = DOMAIN calls[1].params

\* Two names come back in pattern order.
C8_Witness ==
    /\ op = "getRawParams"
    /\ Len(rawParams) = 2
    /\ rawParams[1] # rawParams[2]
    /\ rawParams[1] = NameAt(pattern, Kth(PlaceholderIndices(pattern), 1))

-----------------------------------------------------------------------------
(* C9, C10: the route table *)

IsNamespace(e) == "routes" \in DOMAIN e

\* The places of the plain routes of a configuration: the child indices from
\* the root down to the route.
RECURSIVE LeafAddresses(_, _)
LeafAddresses(elements, addr) ==
    UNION {IF IsNamespace(elements[i])
           THEN LeafAddresses(elements[i].routes, Append(addr, i))
           ELSE {Append(addr, i)} : i \in 1..Len(elements)}

\* The element of a configuration that stands at an address.
RECURSIVE ElementAt(_, _)
ElementAt(elements, addr) ==
    IF Len(addr) = 1 THEN elements[Head(addr)]
    ELSE ElementAt(elements[Head(addr)].routes, Tail(addr))

\* a comes before b in a left-to-right depth-first traversal.
Before(a, b) ==
    \E k \in 1..Len(a) :
        /\ k <= Len(b)
        /\ \A m \in 1..(k - 1) : a[m] = b[m]
        /\ a[k] < b[k]

\* C9: getRoutes yields the plain routes of the tree in depth-first,
\* left-to-right order: as many entries as the tree has plain routes, none
\* merged, dropped or deduplicated, each with its method and handler.
C9_DepthFirstOrder ==
    started =>
        /\ Len(allRoutes) = Cardinality(LeafAddresses(routes, <<>>))
        /\ {allRoutes[i].handler : i \in 1..Len(allRoutes)}
              = LeafAddresses(routes, <<>>)
        /\ \A i, j \in 1..Len(allRoutes) :
              i < j => Before(allRoutes[i].handler, allRoutes[j].handler)
        /\ \A i \in 1..Len(allRoutes) :
              allRoutes[i].method = ElementAt(routes, allRoutes[i].handler).method

\* A plain route after a namespace, and two routes of one method and path in
\* the flattened list.
C9_Witness ==
    /\ started
    /\ Len(routes) = 2
    /\ IsNamespace(routes[1])
    /\ ~IsNamespace(routes[2])
    /\ Len(allRoutes) = 2
    /\ allRoutes[1].path = allRoutes[2].path
    /\ allRoutes[1].handler = <<1, 1>>
    /\ allRoutes[2].handler = <<2>>

\* The prefixes of the namespaces around the route at an address, outermost
\* first, followed by the route's own path.
RECURSIVE PathAlong(_, _)
PathAlong(elements, addr) ==
    IF Len(addr) = 1 THEN elements[Head(addr)].path
    ELSE elements[Head(addr)].path
             \o PathAlong(elements[Head(addr)].routes, Tail(addr))

\* C10: the flattened path of a route is the concatenation of the prefixes of
\* its namespaces, outermost first, and its own path; no "/" is inserted,
\* removed or collapsed.
C10_PathConcatenation ==
    started =>
        \A i \in 1..Len(allRoutes) :
            allRoutes[i].path = PathAlong(routes, allRoutes[i].handler)

\* A route two namespaces deep whose flattened path keeps a doubled "/".
C10_Witness ==
    /\ started
    /\ \E i \in 1..Len(allRoutes) :
          /\ Len(allRoutes[i].handler) = 3
          /\ allRoutes[i].path = <<Slash, "b", Slash, "a", Slash, Slash, "b">>

\* C11: namespace flattening is associative: a namespace p whose only member
\* is a namespace q flattens to the same routes (path, method and handler) as
\* the single namespace whose prefix is p followed by q, holding q's members.
C11_FlatteningAssociative ==
    started =>
        \A i \in 1..Len(routes) :
            (/\ IsNamespace(routes[i])
             /\ Len(routes[i].routes) = 1
             /\ IsNamespace(routes[i].routes[1]))
                => LET outer == routes[i]
                       inner == outer.routes[1]
                       merged == [path |-> outer.path \o inner.path,
                                  routes |-> inner.routes]
                   IN  getRoutes([routes EXCEPT ![i] = merged]) = allRoutes

\* The namespace "/a" holding the namespace "/b" holding one route: the route
\* comes out under "/a/b", as it does from the namespace "/a/b".
C11_Witness ==
    /\ started
    /\ Len(routes) = 1
    /\ IsNamespace(routes[1])
    /\ routes[1].path = <<Slash, "a">>
    /\ Len(routes[1].routes) = 1
    /\ IsNamespace(routes[1].routes[1])
    /\ routes[1].routes[1].path = <<Slash, "b">>
    /\ Len(routes[1].routes[1].routes) = 1
    /\ Len(allRoutes) = 1
    /\ allRoutes[1].path = <<Slash, "a", Slash, "b">> \o routes[1].routes[1].routes[1].path
    /\ allRoutes[1].handler = <<1, 1, 1>>
    /\ allRoutes = getRoutes(<<[path |-> <<Slash, "a", Slash, "b">>,
                                routes |-> routes[1].routes[1].routes]>>)

-----------------------------------------------------------------------------
(* C12..C16: the middleware chain and the host request callback *)

\* The composed handler of invocation t has settled.
Settled(t) == invocations[t].mode \in {"composed", "done"}

IsPrefix(s, r) == Len(s) <= Len(r) /\ SubSeq(r, 1, Len(s)) = s

Kind(k) == middlewares[k].kind

\* The trace of a chain of n middlewares that all await next(): in, the
\* terminal, out.
OnionTrace(n) ==
    [j \in 1..(2 * n + 1) |->
        IF j <= n THEN [ev |-> "before", at |-> j]
        ELSE IF j = n + 1 THEN [ev |-> "terminal", at |-> 0]
        ELSE [ev |-> "after", at |-> 2 * n + 2 - j]]

\* The response `inner` as the middlewares j..n that hand their inner
\* response on transformed ("wrap") or untouched leave it, outermost last.
RECURSIVE Outward(_, _, _)
Outward(j, n, inner) ==
    IF j > n THEN inner
    ELSE IF Kind(j) = "wrap"
    THEN [kind |-> "wrapped", by |-> j, inner |-> Outward(j + 1, n, inner)]
    ELSE Outward(j + 1, n, inner)

\* C12: onion order: when every middleware of the chain awaits next() and
\* returns its result and the terminal answers, the events of one invocation
\* come in the order A-before, B-before, ..., terminal, ..., B-after, A-after,
\* and the composed handler resolves to the terminal's response as the
\* middlewares transformed it on the way out, innermost first.
C12_OnionOrder ==
    \A t \in 1..Len(invocations) :
        (/\ \A k \in 1..Len(middlewares) : Kind(k) = "wrap"
         /\ handlerBehaviour = "respond")
            => LET inv == invocations[t]
                   n == Len(middlewares)
               IN  /\ IsPrefix(inv.events, OnionTrace(n))
                   /\ Settled(t) =>
                         /\ inv.events = OnionTrace(n)
                         /\ inv.result =
                               Outward(1, n, handleRoutes(allRoutes, inv.req)[2])

\* Two such middlewares: the five events, and the terminal's response wrapped
\* by the second and then by the first.
C12_Witness ==
    /\ Len(middlewares) = 2
    /\ \A k \in 1..2 : Kind(k) = "wrap"
    /\ handlerBehaviour = "respond"
    /\ Len(invocations) = 1
    /\ Settled(1)
    /\ invocations[1].events =
          << [ev |-> "before", at |-> 1], [ev |-> "before", at |-> 2],
             [ev |-> "terminal", at |-> 0],
             [ev |-> "after", at |-> 2], [ev |-> "after", at |-> 1] >>
    /\ invocations[1].result.kind = "wrapped"
    /\ invocations[1].result.by = 1
    /\ invocations[1].result.inner.by = 2
    /\ invocations[1].result.inner.inner.kind = "handler"

IsResponse(v) == v # Undefined /\ v.kind \in {"text", "file", "handler", "middleware", "wrapped"}
IsErrorResponse(v) == v # Undefined /\ v.kind = "text" /\ v.status >= 400

\* Some middleware or the terminal handler of invocation t resolved with no
\* usable value.
ResolvedEmpty(t) ==
    LET inv == invocations[t]
    IN  \/ \E e \in 1..Len(inv.events) :
              /\ inv.events[e].ev = "before"
              /\ Kind(inv.events[e].at) = "void"
        \/ \E e \in 1..Len(inv.events) :
              /\ inv.events[e].ev = "after"
              /\ Kind(inv.events[e].at) = "forget"
        \/ /\ \E e \in 1..Len(inv.events) : inv.events[e].ev = "terminal"
           /\ handlerBehaviour = "void"
           /\ matchRoute(allRoutes, inv.req) # Undefined

\* C14: the composed handler's result is a response or a rejection, never
\* undefined: when a middleware or the terminal handler resolves with no
\* usable value, a fallback error response takes its place.
C14_NeverUndefined ==
    \A t \in 1..Len(invocations) :
        Settled(t) =>
            /\ invocations[t].result # Undefined
            /\ ResolvedEmpty(t) =>
                  \/ IsThrow(invocations[t].result)
                  \/ IsErrorResponse(invocations[t].result)

\* C15: a rejection raised by a middleware or by the terminal handler goes
\* out of the composed handler unchanged unless an outer middleware catches
\* it: after the throw nothing else is started (the next event, if any, is an
\* outer middleware's catch), the value on its way out is the rejection
\* itself, and the composed handler settles with it.
C15_RejectionPropagates ==
    \A t \in 1..Len(invocations) :
        LET inv == invocations[t]
            n == Len(inv.events)
        IN  /\ \A e \in 1..n :
                  inv.events[e].ev = "throw" =>
                      \/ e = n
                      \/ inv.events[e + 1].ev = "catch"
            /\ (n > 0 /\ inv.events[n].ev = "throw") =>
                  /\ inv.mode \in {"settled", "returned"} =>
                        inv.val = [kind |-> "throw", by |-> inv.events[n].at]
                  /\ Settled(t) =>
                        inv.result = [kind |-> "throw", by |-> inv.events[n].at]

\* The third middleware of three throws under two that await next(): neither
\* resumes, the terminal never runs, and the composed handler rejects with the
\* third's error.
C15_Witness ==
    /\ Len(middlewares) = 3
    /\ Kind(1) = "wrap"
    /\ Kind(2) = "forget"
    /\ Kind(3) = "throw"
    /\ Len(invocations) = 1
    /\ Settled(1)
    /\ invocations[1].events =
          << [ev |-> "before", at |-> 1], [ev |-> "before", at |-> 2],
             [ev |-> "before", at |-> 3], [ev |-> "throw", at |-> 3] >>
    /\ invocations[1].result = [kind |-> "throw", by |-> 3]

\* C16: on the path without a websocket upgrade the host request callback
\* always returns a response: a 500 when the composed handler rejects, a 404
\* when it resolves with no value, and otherwise the very response it
\* resolved to; no exception leaves the callback.
C16_HostAlwaysResponds ==
    \A t \in 1..Len(invocations) :
        invocations[t].mode = "done" =>
            LET inv == invocations[t]
            IN  /\ IsResponse(inv.sent)
                /\ IF inv.result = Undefined
                   THEN inv.sent = [kind |-> "text", status |-> 404,
                                    body |-> "Not Found"]
                   ELSE IF inv.result.kind = "throw"
                   THEN inv.sent = [kind |-> "text", status |-> 500,
                                    body |-> "Internal Server Error"]
                   ELSE inv.sent = inv.result

\* The route handler throws under a middleware that awaits next(): the
\* composed handler rejects and the callback answers 500.
C16_Witness ==
    /\ Len(invocations) = 1
    /\ invocations[1].mode = "done"
    /\ Len(middlewares) = 1
    /\ Kind(1) = "wrap"
    /\ handlerBehaviour = "throw"
    /\ invocations[1].result = [kind |-> "throw", by |-> 0]
    /\ invocations[1].sent.kind = "text"
    /\ invocations[1].sent.status = 500

-----------------------------------------------------------------------------
(* C17..C20: the rate limiter *)

\* The rate limiter has run in invocation t; the trace entry of that run.
HasRun(t) ==
    \E e \in 1..Len(invocations[t].events) :
        invocations[t].events[e].ev = "rateLimit"
Run(t) ==
    invocations[t].events[CHOOSE e \in 1..Len(invocations[t].events) :
                              invocations[t].events[e].ev = "rateLimit"]

\* The route handler has been called in invocation t.
ReachedTerminal(t) ==
    \E e \in 1..Len(invocations[t].events) :
        invocations[t].events[e].ev = "terminal"

Least(S) == CHOOSE i \in S : \A j \in S : i <= j
Greatest(S) == CHOOSE i \in S : \A j \in S : j <= i

\* The earlier requests of the key of request t (requests are handled one
\* after another: an earlier invocation is an earlier request).
EarlierOfKey(t) ==
    {u \in 1..(t - 1) : HasRun(u) /\ Run(u).key = Run(t).key}

\* When the window that request t falls into began: with the key's first
\* request, or with the first request that came more than windowMs after the
\* beginning of the window before.
RECURSIVE WindowStart(_)
WindowStart(t) ==
    IF EarlierOfKey(t) = {} THEN Run(t).time
    ELSE LET began == WindowStart(Greatest(EarlierOfKey(t)))
         IN  IF Run(t).time > began + middlewares[1].windowMs
             THEN Run(t).time
             ELSE began

\* The place of request t among the requests of its key in its window.
PlaceInWindow(t) ==
    Cardinality({u \in EarlierOfKey(t) \cup {t} : WindowStart(u) = WindowStart(t)})

\* C17: of the requests of one key, the first maxRequests of a window are
\* allowed (next() is called and its result returned), every further one of
\* that window is refused with 429 and next() not called, and a request that
\* comes more than windowMs after the window began is allowed again with the
\* count restarted at 1; with windowMs = 60000 and maxRequests = 2, three
\* requests within the window and a fourth after it come out
\* allowed, allowed, limited, allowed.
C17_WindowedLimit ==
    /\ \A t \in 1..Len(invocations) :
          HasRun(t) =>
              /\ Run(t).count = PlaceInWindow(t)
              /\ IF PlaceInWindow(t) <= middlewares[1].maxRequests
                 THEN /\ Run(t).outcome = "next"
                      /\ Settled(t) =>
                            /\ ReachedTerminal(t)
                            /\ invocations[t].result =
                                  handleRoutes(allRoutes, invocations[t].req)[2]
                 ELSE /\ Run(t).outcome = "429"
                      /\ ~ReachedTerminal(t)
                      /\ Settled(t) =>
                            invocations[t].result =
                                [kind |-> "text", status |-> 429,
                                 body |-> "Too Many Requests"]
    /\ (/\ middlewares[1].windowMs = 60000
        /\ middlewares[1].maxRequests = 2
        /\ Len(invocations) = 4
        /\ \A t \in 1..4 : HasRun(t) /\ Run(t).key = Run(1).key
        /\ Run(3).time <= Run(1).time + 60000
        /\ Run(4).time > Run(1).time + 60000)
          => <<Run(1).outcome, Run(2).outcome, Run(3).outcome, Run(4).outcome>>
                 = <<"next", "next", "429", "next">>

\* The example: windowMs = 60000, maxRequests = 2, three requests of one key
\* within a window and a fourth after it.
C17_Witness ==
    /\ middlewares[1].windowMs = 60000
    /\ middlewares[1].maxRequests = 2
    /\ Len(invocations) = 4
    /\ \A t \in 1..4 : invocations[t].mode = "done" /\ Run(t).key = <<"1">>
    /\ Run(1).time = 0
    /\ Run(3).time = 60000
    /\ Run(4).time = 90000
    /\ <<Run(1).outcome, Run(2).outcome, Run(3).outcome, Run(4).outcome>>
           = <<"next", "next", "429", "next">>
    /\ Run(4).count = 1
    /\ invocations[3].sent.status = 429
    /\ invocations[4].sent.kind = "handler"

\* C18: whatever the interleaving of requests that are in flight together,
\* the limiter's lookup, reset, increment and comparison act as one step: two
\* requests of one key in one window never read the same count, and at most
\* maxRequests requests of a key reach next() in one window.
C18_AtomicCount ==
    /\ \A t, u \in 1..Len(invocations) :
          (/\ t # u
           /\ HasRun(t)
           /\ HasRun(u)
           /\ Run(t).key = Run(u).key
           /\ Run(t).resetTime = Run(u).resetTime)
              => Run(t).count # Run(u).count
    /\ \A t \in 1..Len(invocations) :
          HasRun(t) =>
              Cardinality({u \in 1..Len(invocations) :
                              /\ HasRun(u)
                              /\ Run(u).key = Run(t).key
                              /\ Run(u).resetTime = Run(t).resetTime
                              /\ Run(u).outcome = "next"})
                  <= middlewares[1].maxRequests

\* Three requests of one key in flight together, the first still suspended
\* inside next(): two were let through and one refused.
C18_Witness ==
    /\ middlewares[1].maxRequests = 2
    /\ Len(invocations) = 3
    /\ \A t \in 1..3 : HasRun(t) /\ ~Settled(t)
    /\ invocations[1].mode = "next"
    /\ Cardinality({t \in 1..3 : Run(t).outcome = "next"}) = 2
    /\ Cardinality({t \in 1..3 : Run(t).outcome = "429"}) = 1

\* The text of a header value before its first comma, and a text without the
\* blanks at its ends.
FirstField(v) ==
    LET commas == {i \in 1..Len(v) : v[i] = Comma}
    IN  SubSeq(v, 1, IF commas = {} THEN Len(v) ELSE Least(commas) - 1)
Trimmed(v) ==
    LET inked == {i \in 1..Len(v) : v[i] # Space}
    IN  IF inked = {} THEN <<>> ELSE SubSeq(v, Least(inked), Greatest(inked))

\* What each client-address header offers as the key: "" when it is absent.
Forwarded(h) ==
    IF "x-forwarded-for" \in DOMAIN h
    THEN Trimmed(FirstField(h["x-forwarded-for"])) ELSE <<>>
Connecting(h) ==
    IF "cf-connecting-ip" \in DOMAIN h THEN h["cf-connecting-ip"] ELSE <<>>
RealIp(h) == IF "x-real-ip" \in DOMAIN h THEN h["x-real-ip"] ELSE <<>>

\* The key by the fixed priority of the headers; "" when none offers one.
KeyByPriority(h) ==
    IF Forwarded(h) # <<>> THEN Forwarded(h)
    ELSE IF Connecting(h) # <<>> THEN Connecting(h)
    ELSE RealIp(h)

KeyOf(t) == KeyByPriority(invocations[t].req.headers)

\* C19: when no client-address header yields a key the limiter answers 400
\* itself: next() is not called, and the rate-limit map is as the requests
\* with a key left it: no entry is created and no count incremented.
C19_NoKeyIs400 ==
    /\ \A t \in 1..Len(invocations) :
          (HasRun(t) /\ KeyOf(t) = <<>>) =>
              /\ Run(t).outcome = "400"
              /\ ~ReachedTerminal(t)
              /\ invocations[t].stack = <<>>
              /\ Settled(t) =>
                    invocations[t].result =
                        [kind |-> "text", status |-> 400,
                         body |-> "Could not determine client IP"]
    /\ DOMAIN rateLimitMap =
          {KeyOf(t) : t \in {u \in 1..Len(invocations) :
                                 HasRun(u) /\ KeyOf(u) # <<>>}}
    /\ \A key \in DOMAIN rateLimitMap :
          rateLimitMap[key].count =
              Cardinality({t \in 1..Len(invocations) : HasRun(t) /\ KeyOf(t) = key})

\* A request with a key and then one without: the second is answered 400 and
\* the map holds the first one's entry alone, counted once.
C19_Witness ==
    /\ Len(invocations) = 2
    /\ invocations[2].mode = "done"
    /\ KeyOf(1) = <<"1">>
    /\ DOMAIN invocations[2].req.headers = {}
    /\ invocations[2].sent.status = 400
    /\ ~ReachedTerminal(2)
    /\ DOMAIN rateLimitMap = {<<"1">>}
    /\ rateLimitMap[<<"1">>].count = 1

-----------------------------------------------------------------------------
(* C21..C22, C27..C28: the entries of the rate-limit map *)

\* The entry of `key` is expired: the clock is past its resetTime.
Expired(map, key) == key \in DOMAIN map /\ now > map[key].resetTime

\* The step is a run of the rate limiter at place k of the chain on a request
\* of the client `key`.
RunsFor(key, k) ==
    \E t \in 1..Len(invocations) :
        /\ invocations[t].mode = "next"
        /\ invocations[t].i = k - 1
        /\ invocations'[t].i = k
        /\ KeyOf(t) = key

\* C21: entries of the rate-limit map are never deleted: in every step each
\* key of the map stays in it, and a request that finds its key's entry
\* expired overwrites that entry where it is (the count restarted, the
\* resetTime a window from now) while the map keeps exactly its keys.
C21_EntriesNeverDeleted ==
    [][/\ DOMAIN rateLimitMap \subseteq DOMAIN rateLimitMap'
       /\ \A key \in DOMAIN rateLimitMap :
             (Expired(rateLimitMap, key) /\ RunsFor(key, 1))
                => /\ DOMAIN rateLimitMap' = DOMAIN rateLimitMap
                   /\ rateLimitMap'[key] =
                         [count |-> 1,
                          resetTime |-> now + middlewares[1].windowMs]
                   /\ \A other \in DOMAIN rateLimitMap \ {key} :
                         rateLimitMap'[other] = rateLimitMap[other]]_vars

\* Both clients have entries; the first one's was reset by a request after
\* its window, the second one's has expired and is still in the map.
C21_Witness ==
    /\ DOMAIN rateLimitMap = {<<"1">>, <<"2">>}
    /\ middlewares[1].windowMs = TickMs
    /\ now = 3 * TickMs
    /\ rateLimitMap[<<"1">>] = [count |-> 1, resetTime |-> 4 * TickMs]
    /\ rateLimitMap[<<"2">>].resetTime = TickMs
    /\ Len(invocations) = 3
    /\ invocations[3].mode = "done"

\* C22: the window is reset lazily and on a strict comparison: a request
\* resets its key's entry (count restarted, resetTime a window from now)
\* exactly when the clock it reads is strictly past the entry's resetTime; a
\* request at the very resetTime is counted in the old window; an entry is
\* created by its key's first request with a window from then; and no entry
\* changes in a step that is not a request of its key.
C22_LazyStrictReset ==
    [][/\ \A key \in DOMAIN rateLimitMap :
             /\ key \in DOMAIN rateLimitMap'
             /\ IF RunsFor(key, 1)
                THEN IF now > rateLimitMap[key].resetTime
                     THEN rateLimitMap'[key] =
                             [count |-> 1,
                              resetTime |-> now + middlewares[1].windowMs]
                     ELSE rateLimitMap'[key] =
                             [count |-> rateLimitMap[key].count + 1,
                              resetTime |-> rateLimitMap[key].resetTime]
                ELSE rateLimitMap'[key] = rateLimitMap[key]
       /\ \A key \in DOMAIN rateLimitMap' \ DOMAIN rateLimitMap :
             /\ RunsFor(key, 1)
             /\ rateLimitMap'[key] =
                   [count |-> 1,
                    resetTime |-> now + middlewares[1].windowMs]]_vars

\* With a window of two clock steps and one request allowed: the second
\* request comes exactly at the resetTime and is refused as the window's
\* second, the entry has then lain expired through a step of the clock, and
\* the third request, one step later, has reset it.
C22_Witness ==
    /\ middlewares[1] = rateLimit(WindowMs, 1)
    /\ Len(invocations) = 3
    /\ \A t \in 1..3 : HasRun(t) /\ Run(t).key = <<"1">>
    /\ Run(1).time = 0
    /\ Run(2).time = WindowMs
    /\ Run(2).resetTime = WindowMs
    /\ Run(2).count = 2
    /\ Run(2).outcome = "429"
    /\ Run(3).time = WindowMs + TickMs
    /\ Run(3).count = 1
    /\ Run(3).resetTime = 2 * WindowMs + TickMs
    /\ Run(3).outcome = "next"

\* The step is a run of the rate limiter at place k that refuses a request of
\* the client `key` with 429.
RefusedFor(key, k) ==
    \E t \in 1..Len(invocations) :
        /\ invocations[t].mode = "next"
        /\ invocations[t].i = k - 1
        /\ invocations'[t].i = k
        /\ KeyOf(t) = key
        /\ invocations'[t].val = [kind |-> "text", status |-> 429,
                                  body |-> "Too Many Requests"]

\* C27: the window is fixed, not sliding: a request refused with 429 leaves
\* its key's resetTime as it was; a resetTime changes only by a request of
\* its key that comes after it has expired; with a clock that does not go
\* back and windowMs > 0 no resetTime ever decreases; and every entry's
\* resetTime is one window after the request that opened its window (the one
\* counted first), so requests during a lockout do not prolong it.
C27_FixedWindow ==
    [][/\ middlewares[1].windowMs > 0
       /\ now' >= now
       /\ \A key \in DOMAIN rateLimitMap :
             /\ key \in DOMAIN rateLimitMap'
             /\ rateLimitMap'[key].resetTime >= rateLimitMap[key].resetTime
             /\ rateLimitMap'[key].resetTime # rateLimitMap[key].resetTime =>
                   /\ RunsFor(key, 1)
                   /\ now > rateLimitMap[key].resetTime
             /\ RefusedFor(key, 1) =>
                   rateLimitMap'[key].resetTime = rateLimitMap[key].resetTime
       /\ \A key \in DOMAIN rateLimitMap :
             \E t \in 1..Len(invocations) :
                 /\ HasRun(t)
                 /\ Run(t).key = key
                 /\ Run(t).count = 1
                 /\ Run(t).outcome = "next"
                 /\ rateLimitMap[key].resetTime =
                       Run(t).time + middlewares[1].windowMs]_vars

\* A window of two clock steps with one request allowed: the client was let
\* through at 0 and refused one step later and again at the very end of the
\* window, and the entry's resetTime is still the end of that window.
C27_Witness ==
    /\ middlewares[1] = rateLimit(WindowMs, 1)
    /\ Len(invocations) = 3
    /\ \A t \in 1..3 : invocations[t].mode = "done" /\ Run(t).key = <<"1">>
    /\ <<Run(1).time, Run(2).time, Run(3).time>> = <<0, TickMs, WindowMs>>
    /\ <<Run(1).outcome, Run(2).outcome, Run(3).outcome>> = <<"next", "429", "429">>
    /\ rateLimitMap[<<"1">>] = [count |-> 3, resetTime |-> WindowMs]
    /\ invocations[3].sent.status = 429

\* The rate limiter at place k has run in invocation t; the trace entry of
\* that run.
HasRunAt(t, k) ==
    \E e \in 1..Len(invocations[t].events) :
        /\ invocations[t].events[e].ev = "rateLimit"
        /\ invocations[t].events[e].at = k
RunAt(t, k) ==
    invocations[t].events[CHOOSE e \in 1..Len(invocations[t].events) :
                              /\ invocations[t].events[e].ev = "rateLimit"
                              /\ invocations[t].events[e].at = k]

\* C28: the middlewares rateLimitMiddleware returns share one map, keyed by
\* the client key alone: either of two instances in a chain, whatever its
\* windowMs and maxRequests, counts on the entry it finds for the key (made or
\* last reset by either), and creates or resets it with its own windowMs; the
\* map never has another key than the clients'; so a request that passes
\* through both is counted twice, and an entry's resetTime is that of the
\* instance that created or last reset it.
C28_SharedMap ==
    [][/\ DOMAIN rateLimitMap \subseteq {KeyOf(t) : t \in 1..Len(invocations)}
       /\ \A key \in DOMAIN rateLimitMap' :
             \A k \in 1..2 :
                 RunsFor(key, k) =>
                     rateLimitMap'[key] =
                         IF key \in DOMAIN rateLimitMap
                            /\ ~(now > rateLimitMap[key].resetTime)
                         THEN [count |-> rateLimitMap[key].count + 1,
                               resetTime |-> rateLimitMap[key].resetTime]
                         ELSE [count |-> 1,
                               resetTime |-> now + middlewares[k].windowMs]
       /\ \A key \in DOMAIN rateLimitMap :
             (\A k \in 1..2 : ~RunsFor(key, k)) =>
                 /\ key \in DOMAIN rateLimitMap'
                 /\ rateLimitMap'[key] = rateLimitMap[key]
       /\ \A t \in 1..Len(invocations) :
             (HasRunAt(t, 1) /\ HasRunAt(t, 2)) =>
                 IF RunAt(t, 2).time > RunAt(t, 1).resetTime
                 THEN /\ RunAt(t, 2).count = 1
                      /\ RunAt(t, 2).resetTime =
                            RunAt(t, 2).time + middlewares[2].windowMs
                 ELSE /\ RunAt(t, 2).count = RunAt(t, 1).count + 1
                      /\ RunAt(t, 2).resetTime = RunAt(t, 1).resetTime]_vars

\* A limiter with a window of one clock step before one with a window of two:
\* the first request is counted by both, the entry has count 2 and the
\* resetTime the first instance gave it; the second request, after that
\* window, is the one the first instance resets on, counted again by both.
C28_Witness ==
    /\ middlewares = <<rateLimit(TickMs, 3), rateLimit(WindowMs, 3)>>
    /\ Len(invocations) = 2
    /\ \A t \in 1..2 : invocations[t].mode = "done"
    /\ <<RunAt(1, 1).count, RunAt(1, 2).count>> = <<1, 2>>
    /\ <<RunAt(1, 1).resetTime, RunAt(1, 2).resetTime>> = <<TickMs, TickMs>>
    /\ RunAt(2, 1).time = WindowMs
    /\ <<RunAt(2, 1).count, RunAt(2, 2).count>> = <<1, 2>>
    /\ DOMAIN rateLimitMap = {<<"1">>}
    /\ rateLimitMap[<<"1">>] = [count |-> 2, resetTime |-> WindowMs + TickMs]
    /\ invocations[2].sent.kind = "handler"

-----------------------------------------------------------------------------
(* C23..C25: the cursor of the chain *)

\* The middleware at place k calls next() when it runs.
CallsNext(k) == Kind(k) \in {"wrap", "forget", "catch"}

\* The places of the event `entry` in the trace of invocation t.
Places(t, entry) ==
    {e \in 1..Len(invocations[t].events) : invocations[t].events[e] = entry}

\* C23: in one invocation the terminal handler is invoked only when the
\* cursor has reached the end of the list, that is after every middleware has
\* been entered and has called next(), and a middleware is entered only
\* through the call of next() of the one before it; whatever the middlewares
\* do, one that resolves with nothing without calling next() included.
C23_TerminalOnlyAtEnd ==
    \A t \in 1..Len(invocations) :
        /\ \A e \in Places(t, Terminal) :
              \A k \in 1..Len(middlewares) :
                  /\ \E b \in Places(t, Entered(k)) : b < e
                  /\ CallsNext(k)
        /\ \A k \in 2..Len(middlewares) :
              \A e \in Places(t, Entered(k)) :
                  /\ \E b \in Places(t, Entered(k - 1)) : b < e
                  /\ CallsNext(k - 1)

\* C24: in one invocation in which every middleware calls next() at most
\* once, the terminal route handler is executed at most once and each
\* middleware is entered at most once, also when a middleware awaits next()
\* and resolves with no value.
C24_TerminalAtMostOnce ==
    \A t \in 1..Len(invocations) :
        /\ Cardinality(Places(t, Terminal)) <= 1
        /\ \A k \in 1..Len(middlewares) :
              Cardinality(Places(t, Entered(k))) <= 1

\* The middlewares invocation t has entered, in the order of their entry.
RECURSIVE EnteredPlaces(_)
EnteredPlaces(events) ==
    IF events = <<>> THEN <<>>
    ELSE IF Head(events).ev = "before"
    THEN <<Head(events).at>> \o EnteredPlaces(Tail(events))
    ELSE EnteredPlaces(Tail(events))

\* C25: the cursor belongs to one invocation: when two requests go through
\* the same composed handler and interleave at any await, each of them enters
\* the middlewares 1, 2, ... in order, none skipped and none repeated, up to
\* its own cursor; the two traces are those of the same run (one is the
\* beginning of the other); and when every middleware awaits next() each
\* trace is the whole round in, terminal, out.
C25_CursorPrivate ==
    /\ \A t \in 1..Len(invocations) :
          /\ EnteredPlaces(invocations[t].events) =
                [j \in 1..invocations[t].i |-> j]
          /\ (\A k \in 1..Len(middlewares) : Kind(k) = "wrap") =>
                /\ IsPrefix(invocations[t].events, OnionTrace(Len(middlewares)))
                /\ Settled(t) =>
                      invocations[t].events = OnionTrace(Len(middlewares))
    /\ \A t, u \in 1..Len(invocations) :
          invocations[t].req = invocations[u].req =>
              \/ IsPrefix(invocations[t].events, invocations[u].events)
              \/ IsPrefix(invocations[u].events, invocations[t].events)

\* Two middlewares that await next(): the first request is suspended inside
\* the first middleware's next(), having entered the first middleware alone,
\* while the second request, which came later, has gone the whole round.
C25_Witness ==
    /\ Len(middlewares) = 2
    /\ \A k \in 1..2 : Kind(k) = "wrap"
    /\ Len(invocations) = 2
    /\ invocations[1].mode = "next"
    /\ invocations[1].i = 1
    /\ invocations[1].events = <<[ev |-> "before", at |-> 1]>>
    /\ invocations[2].mode = "done"
    /\ invocations[2].i = 2
    /\ invocations[2].events = OnionTrace(2)

-----------------------------------------------------------------------------
(* C26: flattening and matching leave their inputs alone *)

\* C26: getRoutes leaves the tree it is given unchanged; a plain route of the
\* top level is passed through as it is, and the entry made for a route
\* inside a namespace differs from that route in its path alone; and once
\* start has built the flattened list, no request changes it.
C26_InputsNotMutated ==
    [][/\ routes' = routes
       /\ started => allRoutes' = allRoutes
       /\ started' =>
             \A i \in 1..Len(allRoutes') :
                 LET original == ElementAt(routes, allRoutes'[i].handler)
                 IN  /\ allRoutes'[i] =
                           [original EXCEPT !.path = allRoutes'[i].path]
                     /\ Len(allRoutes'[i].handler) = 1 =>
                           allRoutes'[i] = original]_vars

\* A route inside a namespace and a plain route after it: the list holds the
\* first under its joined path and the second as it was, the tree still has
\* the first under its own path, and a request has been dispatched to it.
C26_Witness ==
    /\ started
    /\ Len(routes) = 2
    /\ IsNamespace(routes[1])
    /\ routes[1].path = <<Slash, "a">>
    /\ Len(routes[1].routes) = 1
    /\ ~IsNamespace(routes[1].routes[1])
    /\ routes[1].routes[1].path = <<Slash, "b">>
    /\ ~IsNamespace(routes[2])
    /\ Len(allRoutes) = 2
    /\ allRoutes[1].path = <<Slash, "a", Slash, "b">>
    /\ allRoutes[2] = routes[2]
    /\ op = "handleRoutes"
    /\ matched = allRoutes[1]

-----------------------------------------------------------------------------
(* C29: the websocket branch of the host request callback *)

\* The canUpgrade hook was called, and server.upgrade was called, in
\* invocation t.
Asked(t) == Places(t, [ev |-> "canUpgrade", at |-> 0]) # {}
WasUpgraded(t) == Places(t, [ev |-> "upgrade", at |-> 0]) # {}

Forbidden == [kind |-> "text", status |-> 403, body |-> "Forbidden"]
ServerError == [kind |-> "text", status |-> 500, body |-> "Internal Server Error"]

\* The chain of invocation t ran to its end before anything of the upgrade:
\* canUpgrade and server.upgrade are called with the composed handler resolved
\* and no middleware suspended, and no event of the chain follows them.
ChainFirst(t) ==
    LET inv == invocations[t]
    IN  /\ (Asked(t) \/ WasUpgraded(t) \/ inv.mode = "upgrade") =>
              /\ inv.result # NoResponse
              /\ ~IsThrow(inv.result)
              /\ inv.stack = <<>>
        /\ \A e, f \in 1..Len(inv.events) :
              (e < f /\ inv.events[e].ev \in {"canUpgrade", "upgrade"})
                  => inv.events[f].ev = "upgrade"
        /\ (Len(middlewares) = 0 /\ inv.result # NoResponse) =>
              inv.result = [kind |-> "text", status |-> 101, body |-> <<"null">>]

\* C29, as the claim has it: on a request to /ws of a server with a websocket
\* option the whole chain (with a 101 terminal) runs before canUpgrade is
\* evaluated and its response is dropped; then the connection is upgraded if
\* and only if canUpgrade is absent or resolves true, and otherwise 403 is
\* returned; a rejection of the chain gives 500 and no upgrade.
C29_UpgradeIffCanUpgrade ==
    \A t \in 1..Len(invocations) :
        invocations[t].ws =>
            /\ ChainFirst(t)
            /\ invocations[t].mode = "done" =>
                  IF IsThrow(invocations[t].result)
                  THEN /\ invocations[t].sent = ServerError
                       /\ ~WasUpgraded(t)
                  ELSE /\ WasUpgraded(t) <=>
                             websocket.canUpgrade \in {"absent", "true"}
                       /\ ~WasUpgraded(t) => invocations[t].sent = Forbidden

\* C29, amended for hooks that reject: as above, and the connection is
\* upgraded if and only if the chain resolved, canUpgrade is absent or
\* resolves true, and the upgrade hook, if there is one, does not reject; 403
\* is returned when canUpgrade resolves false; 500 is returned, with no
\* upgrade, when the chain, canUpgrade or the upgrade hook rejects.  A
\* response a middleware short-circuited with (429, 400) counts as the chain
\* having resolved; canUpgrade is called exactly when there is one and the
\* chain resolved.
C29_UpgradeAfterChain ==
    \A t \in 1..Len(invocations) :
        invocations[t].ws =>
            /\ ChainFirst(t)
            /\ invocations[t].mode = "done" =>
                  IF IsThrow(invocations[t].result)
                  THEN /\ invocations[t].sent = ServerError
                       /\ ~Asked(t)
                       /\ ~WasUpgraded(t)
                  ELSE /\ Asked(t) <=> websocket.canUpgrade # "absent"
                       /\ WasUpgraded(t) <=>
                             /\ websocket.canUpgrade \in {"absent", "true"}
                             /\ websocket.upgrade # "throw"
                       /\ WasUpgraded(t) => invocations[t].sent = Undefined
                       /\ websocket.canUpgrade = "false" =>
                             invocations[t].sent = Forbidden
                       /\ (\/ websocket.canUpgrade = "throw"
                           \/ /\ websocket.canUpgrade \in {"absent", "true"}
                              /\ websocket.upgrade = "throw") =>
                             invocations[t].sent = ServerError

\* The rate limiter alone in the chain and a request to /ws without a
\* client-address header: the limiter answers 400 (x-real-ip is not set on
\* this branch), the terminal does not run, canUpgrade resolves true and the
\* connection is upgraded.
C29_Witness ==
    /\ websocket # Undefined
    /\ websocket.canUpgrade = "true"
    /\ Len(middlewares) = 1
    /\ Kind(1) = "rateLimit"
    /\ Len(invocations) = 1
    /\ invocations[1].ws
    /\ invocations[1].mode = "done"
    /\ invocations[1].result.status = 400
    /\ ~ReachedTerminal(1)
    /\ Asked(1)
    /\ WasUpgraded(1)
    /\ invocations[1].sent = Undefined

-----------------------------------------------------------------------------
(* C30: x-real-ip on the path without upgrade *)

\* C30: on the path without upgrade, when the address of the socket is known
\* the request reaches the composed handler with x-real-ip set to that
\* address, whatever the client sent under that name; so the rate limiter
\* finds a key and never answers 400; and the key is still the client's
\* x-forwarded-for (its first value, trimmed) or cf-connecting-ip when one of
\* them is not empty, and the address otherwise.
C30_RealIpBeforeChain ==
    \A t \in 1..Len(invocations) :
        LET inv == invocations[t]
            h == inv.req.headers
        IN  (~inv.ws /\ inv.req.address # <<"null">> /\ inv.req.address # <<>>) =>
                /\ "x-real-ip" \in DOMAIN h
                /\ h["x-real-ip"] = inv.req.address
                /\ HasRun(t) =>
                      /\ Run(t).outcome # "400"
                      /\ Run(t).key # <<>>
                      /\ Run(t).key =
                            IF Forwarded(h) # <<>> THEN Forwarded(h)
                            ELSE IF Connecting(h) # <<>> THEN Connecting(h)
                            ELSE inv.req.address

\* A request without any client-address header from the socket "9" is counted
\* under "9" and let through; a second one from that socket with
\* x-forwarded-for "1 ,2" is counted under "1".
C30_Witness ==
    /\ Len(invocations) = 2
    /\ invocations[2].mode = "done"
    /\ invocations[1].req.address = <<"9">>
    /\ invocations[1].req.headers = [n \in {"x-real-ip"} |-> <<"9">>]
    /\ Run(1).key = <<"9">>
    /\ Run(1).outcome = "next"
    /\ invocations[1].sent.kind = "handler"
    /\ invocations[2].req.address = <<"9">>
    /\ DOMAIN invocations[2].req.headers = {"x-forwarded-for", "x-real-ip"}
    /\ invocations[2].req.headers["x-forwarded-for"] = <<"1", " ", ",", "2">>
    /\ Run(2).key = <<"1">>
    /\ Run(2).count = 1
    /\ DOMAIN rateLimitMap = {<<"1">>, <<"9">>}

====
